---- MODULE Spec2Model ----
(***************************************************************************)
(* Soft-navigation layer of the site (src/components/Pokedex.jsx, the      *)
(* "Robust SPA nav" IIFE, and the third variant at the end of              *)
(* src/spa-nav.js), modelled as a state machine over the live document,    *)
(* the browser history and the navigations in flight.                      *)
(*                                                                         *)
(* Strings are sequences of tokens.  A URL string is made of the tokens    *)
(*   "https://"  scheme, followed by one host token                        *)
(*   "/"         path separator                                            *)
(*   "a" "b" "index.html" "self" "other"   path segments / host names      *)
(*   "["         a host that makes the URL parser throw                    *)
(*   "?q"        a query string (always last)                              *)
(***************************************************************************)
EXTENDS Integers, Sequences, FiniteSets, TLC

VARIABLES
    variant,     \* which script the page runs: "robust", "third" (Spec, SpecClicks),
                 \* "first", "stable", "handler" (SpecVariants), "fade" (SpecFade);
                 \* "pokedex": the page of the Pokedex component (SpecPokedex);
                 \* "none" where only helper functions are called (SpecFunctions)
    loc,         \* window.location: [pathname, search] (origin is Origin)
    hist,        \* session history: [entries, idx]
    pushCount,   \* number of history.pushState calls that succeeded
    liveMain,    \* the live page's mount point: "app" (main#app), "plain" (main), "none"
    mount,       \* innerHTML of the mount point
    visible,     \* currentMain.style.visibility # "hidden"
    title,       \* document.title
    headAssets,  \* the data-page-style elements of document.head, in order
    active,      \* active[i]: nav link i carries the class "active"
    rootClass,   \* classes of document.documentElement among "ready", "spa-loading"
    opacity,     \* document.documentElement.style.opacity: 0 or 1
    navs,        \* the loadPage / navigate / navigateTo invocations, in start order
    pokemonCache,   \* module-level Map: key (id or name) -> pokemon JSON
    speciesCache,   \* module-level Map, as the set of species URLs it holds
    evoChainCache,  \* module-level Map, as the set of evolution chain URLs it holds
    dex,         \* useState values of the Pokedex component
    jobs,        \* the fetchPokemon / fetchRegionPage invocations, in start order
    lookups,     \* the getPokemonJson calls made and settled by the last step
    call,        \* the last call of a helper function on its own: [f, arg, out]
    ev           \* what the last step was: a DOM event (its inputs, what the
                 \* listener did) or a continuation of loadPage

vars == <<variant, loc, hist, pushCount, liveMain, mount, visible, title,
          headAssets, active, rootClass, opacity, navs, call, ev,
          pokemonCache, speciesCache, evoChainCache, dex, jobs, lookups>>

\* The state of the Pokedex component and of its module-level caches
pokedex == <<pokemonCache, speciesCache, evoChainCache, dex, jobs, lookups>>

\* Bounds of the model: loadPage invocations per page lifetime, in the
\* specification of the whole pipeline, in the one of the click listeners and
\* in the one of the earlier variants of the script.
MaxNavs == 2
MaxClickNavs == 1
MaxVariantNavs == 2
\* loadPage invocations of the robust variant in SpecOverlap
MaxOverlapNavs == 3
\* Bound on the paths handed to the helper functions: tokens per path.
MaxPathLen == 4

-----------------------------------------------------------------------------
(* Strings and URLs *)

Slash == "/"
Scheme == "https://"
Query == "?q"
Origin == "self"                 \* host of window.location.origin

Last(s) == s[Len(s)]
Front(s) == SubSeq(s, 1, Len(s) - 1)
EndsWithSlash(s) == Len(s) > 0 /\ Last(s) = Slash

RECURSIVE SkipSlashes(_)
SkipSlashes(s) == IF s # <<>> /\ Head(s) = Slash THEN SkipSlashes(Tail(s)) ELSE s

PathOrRoot(p) == IF p = <<>> THEN <<Slash>> ELSE p

\* new URL(href, window.location.origin): the base has path "/".
\* ok = FALSE stands for the TypeError the constructor throws.
ParseURL(href) ==
    LET hasQ == href # <<>> /\ Last(href) = Query
        search == IF hasQ THEN <<Query>> ELSE <<>>
        rest == IF hasQ THEN Front(href) ELSE href
        bad == [ok |-> FALSE, host |-> "", pathname |-> <<>>, search |-> <<>>]
    IN  IF rest = <<>>
          THEN [ok |-> TRUE, host |-> Origin, pathname |-> <<Slash>>, search |-> search]
        ELSE IF Head(rest) = Scheme
          THEN IF Len(rest) < 2 \/ rest[2] \in {"[", Slash}
                 THEN bad
                 ELSE [ok |-> TRUE, host |-> rest[2],
                       pathname |-> PathOrRoot(SubSeq(rest, 3, Len(rest))),
                       search |-> search]
        ELSE IF Len(rest) >= 2 /\ rest[1] = Slash /\ rest[2] = Slash
          THEN LET r == SkipSlashes(rest)      \* scheme-relative: //host/path
               IN  IF r = <<>> \/ Head(r) = "["
                     THEN bad
                     ELSE [ok |-> TRUE, host |-> Head(r),
                           pathname |-> PathOrRoot(Tail(r)), search |-> search]
        ELSE IF Head(rest) = Slash
          THEN [ok |-> TRUE, host |-> Origin, pathname |-> rest, search |-> search]
        ELSE [ok |-> TRUE, host |-> Origin, pathname |-> <<Slash>> \o rest,
              search |-> search]

\* url.href
Href(u) == <<Scheme, u.host>> \o u.pathname \o u.search

\* url.pathname + url.search
PathSearch(u) == u.pathname \o u.search

normalizePathKeep(path) == IF path = <<>> THEN <<Slash>> ELSE path

normalizePath(path) ==
    IF path = <<>> THEN <<Slash>>
    ELSE IF Len(path) > 1 /\ EndsWithSlash(path) THEN Front(path)
    ELSE path

\* variants.filter(function (v, i, arr) { return arr.indexOf(v) === i; })
Dedup(s) ==
    LET keep == {i \in 1..Len(s) : \A j \in 1..(i - 1) : s[j] # s[i]}
        RECURSIVE Build(_)
        Build(i) == IF i > Len(s) THEN <<>>
                    ELSE IF i \in keep THEN <<s[i]>> \o Build(i + 1)
                    ELSE Build(i + 1)
    IN  Build(1)

buildVariantsNoDedup(requestHref) ==
    LET base == ParseURL(requestHref)
        pathname == base.pathname
        v2 == IF ~EndsWithSlash(pathname)
                THEN ParseURL(pathname \o <<Slash>>)
                ELSE ParseURL(Front(pathname))
        idx == IF EndsWithSlash(pathname)
                 THEN pathname \o <<"index.html">>
                 ELSE pathname \o <<Slash, "index.html">>
        v3 == ParseURL(idx)
        v4 == ParseURL(normalizePath(pathname) \o <<Slash, "index.html">>)
    IN  IF base.ok /\ v2.ok /\ v3.ok /\ v4.ok
          THEN <<Href(base), Href(v2), Href(v3), Href(v4)>>
          ELSE <<requestHref>>

buildVariants(requestHref) ==
    LET base == ParseURL(requestHref)
        pathname == base.pathname
        v2 == IF ~EndsWithSlash(pathname)
                THEN ParseURL(pathname \o <<Slash>>)
                ELSE ParseURL(Front(pathname))
        idx == IF EndsWithSlash(pathname)
                 THEN pathname \o <<"index.html">>
                 ELSE pathname \o <<Slash, "index.html">>
        v3 == ParseURL(idx)
        v4 == ParseURL(normalizePath(pathname) \o <<Slash, "index.html">>)
    IN  IF base.ok /\ v2.ok /\ v3.ok /\ v4.ok
          THEN Dedup(<<Href(base), Href(v2), Href(v3), Href(v4)>>)
          ELSE <<requestHref>>

-----------------------------------------------------------------------------
(* Pokedex component (src/components/Pokedex.jsx, lines 49-456): texts and   *)
(* the state after the first render                                         *)

\* A text: what it spells without case and surrounding white space (<<>>:
\* nothing, <<"id", i>>: the digits of i, <<"name", i>>: the name of pokemon
\* i, <<"junk">>: anything else), whether it has upper-case letters and
\* whether it has white space around it.
Text(s, up, pad) == [s |-> s, up |-> up, pad |-> pad]
\* String(n)
String(n) == Text(<<"id", n>>, FALSE, FALSE)
\* s.toLowerCase()
toLowerCase(t) == [t EXCEPT !.up = FALSE]
\* s.trim()
trim(t) == [t EXCEPT !.pad = FALSE]

\* pokemon === null
NullPokemon == [id |-> 0, name |-> Text(<<>>, FALSE, FALSE)]

\* new Map()
EmptyMap == [k \in {} |-> 0]

\* The useState initial values (error: "none" stands for null)
InitialDex ==
    [query |-> Text(<<>>, FALSE, FALSE), pokemon |-> NullPokemon, loading |-> FALSE,
     error |-> "none", showAll |-> FALSE, regionList |-> <<>>,
     regionDetails |-> <<>>, loadingRegion |-> FALSE, regionPage |-> 0]

\* The module as loaded and the component as first rendered
InitComponent ==
    /\ pokemonCache = EmptyMap
    /\ speciesCache = {}
    /\ evoChainCache = {}
    /\ dex = InitialDex
    /\ jobs = <<>>
    /\ lookups = {}

-----------------------------------------------------------------------------
(* Responses and fetched documents *)

\* A response body: what looksLikeHtml reads of the text (blank: empty or only
\* white space; marks: which of the substrings it searches for occur) and what
\* DOMParser makes of it (pe: the first .page-enter element, main: the element
\* "main#app" || "main" finds, title: the <title>, assets: the elements tagged
\* data-page-style, in document order; badAttr: a script asset carrying an
\* attribute name the parser accepts and setAttribute rejects; scripts: the
\* number of <script> elements inside the element that gets injected).
Body(b) ==
    CASE b = "blank" ->
           [blank |-> TRUE, marks |-> {}, pe |-> "none", main |-> "none",
            title |-> "none", assets |-> <<>>, badAttr |-> FALSE,
            scripts |-> 0]
      [] b = "text" ->
           [blank |-> FALSE, marks |-> {}, pe |-> "none", main |-> "none",
            title |-> "none", assets |-> <<>>, badAttr |-> FALSE,
            scripts |-> 0]
      [] b = "full" ->
           [blank |-> FALSE, marks |-> {"<!doctype", "<html", "<body", "main id=\"app\""},
            pe |-> "full", main |-> "app",
            title |-> "some", assets |-> <<"style", "script">>, badAttr |-> FALSE,
            scripts |-> 1]
      [] b = "plain" ->
           [blank |-> FALSE, marks |-> {"<html", "<body"}, pe |-> "none", main |-> "plain",
            title |-> "none", assets |-> <<>>, badAttr |-> FALSE,
            scripts |-> 0]
      [] b = "bare" ->
           [blank |-> FALSE, marks |-> {"<body"}, pe |-> "none", main |-> "none",
            title |-> "empty", assets |-> <<"link">>, badAttr |-> FALSE,
            scripts |-> 0]
      [] b = "badattr" ->
           [blank |-> FALSE, marks |-> {"<!doctype", "class=\"page-enter\""},
            pe |-> "full", main |-> "app",
            title |-> "some", assets |-> <<"style", "script", "style">>, badAttr |-> TRUE,
            scripts |-> 1]

\* What a fetch can settle with: the request throws, or a response arrives
\* with a status (ok: 200-299) and a body.
Responses ==
    {[kind |-> "throw", ok |-> FALSE, body |-> "blank"]}
    \cup {[kind |-> "res", ok |-> TRUE, body |-> b] :
             b \in {"blank", "full", "plain", "bare", "badattr"}}
    \cup {[kind |-> "res", ok |-> FALSE, body |-> b] : b \in {"text", "full"}}

looksLikeHtml(text) ==
    IF text.blank THEN FALSE
    ELSE \/ "<!doctype" \in text.marks
         \/ "<html" \in text.marks
         \/ "<body" \in text.marks
         \/ "class=\"page-enter\"" \in text.marks
         \/ "main id=\"app\"" \in text.marks

\* A parsed document: the URL it was fetched from, its body, and the parts
\* ("assets", "fragment", "main") whose nodes have been taken out of it or
\* changed in place since it was parsed.
NoDoc == [u |-> <<>>, b |-> "none", moved |-> {}]
parseHtml(u, b) == [u |-> u, b |-> b, moved |-> {}]

\* The document after one of its parts was inserted into the live page
\* itself (appendChild, replaceWith of a node of the parsed document)
moveNode(doc, part) == [doc EXCEPT !.moved = @ \cup {part}]

cloneNodeMoving(doc, part) == moveNode(doc, part)

\* The document after one of its parts was deep-copied (cloneNode(true),
\* createElement + copy of attributes and text, innerHTML read)
cloneNode(doc, part) == doc

\* No helper function called on its own
NoCall == [f |-> "none", arg |-> <<>>, out |-> <<>>]

\* The data-page-style elements of a parsed document, in document order.
PageAssets(doc) ==
    [k \in 1..Len(Body(doc.b).assets) |->
        [from |-> doc.u, tag |-> Body(doc.b).assets[k], n |-> k]]

\* replacePageAssets(parsedDoc): the head's page assets afterwards, and
\* whether the call threw (setAttribute on the re-created script).
replacePageAssets(doc) ==
    LET new == PageAssets(doc)
        firstBad == IF Body(doc.b).badAttr
                      THEN CHOOSE k \in 1..Len(new) :
                             /\ new[k].tag = "script"
                             /\ \A j \in 1..(k - 1) : new[j].tag # "script"
                      ELSE 0
    IN  IF firstBad = 0
          THEN [threw |-> FALSE, head |-> new]
          ELSE [threw |-> TRUE, head |-> SubSeq(new, 1, firstBad - 1)]

\* findReplacementFragment(parsedDoc): "pe", "main", "body" (null cannot
\* happen: the HTML parser always makes a body).
findReplacementFragment(doc) ==
    IF Body(doc.b).pe = "full" THEN "pe"
    ELSE IF Body(doc.b).main \in {"app", "plain"} THEN "main"
    ELSE "body"

\* stripScripts(node): the number of <script> elements left in the node
stripScripts(scripts) == 0

\* Markup of a mount point: the fragment frag of the document fetched from u
\* with body b; scripts: the <script> elements in it, run: how many of them
\* the script engine has executed.
\* safeClone.innerHTML: the fragment's markup without its scripts.
Content(doc, frag) ==
    [u |-> doc.u, b |-> doc.b, frag |-> frag,
     scripts |-> stripScripts(Body(doc.b).scripts), run |-> 0]

\* newMain.innerHTML (third variant): scripts assigned through innerHTML are
\* never executed.
Content3(doc) ==
    [u |-> doc.u, b |-> doc.b, frag |-> "main",
     scripts |-> Body(doc.b).scripts, run |-> 0]

extractTitleKeep(doc, liveTitle) == liveTitle

\* extractTitleFromDoc(doc), given the live document.title
extractTitleFromDoc(doc, liveTitle) ==
    CASE Body(doc.b).title = "none" -> liveTitle
      [] Body(doc.b).title = "empty" -> <<>>
      [] OTHER -> <<"title", doc.b, doc.u>>

-----------------------------------------------------------------------------
(* Navigation links and history *)

\* href attributes of the links "nav.nav a[data-spa]"
NavLinks == << <<Slash>>, <<Slash, "a">> >>

setActiveNavExact(pathname) ==
    [i \in 1..Len(NavLinks) |-> ParseURL(NavLinks[i]).pathname = pathname]

setActiveNav(pathname) ==
    [i \in 1..Len(NavLinks) |->
        normalizePath(ParseURL(NavLinks[i]).pathname) = normalizePath(pathname)]

\* setActiveNav of the third variant: no normalisation
setActiveNav3(pathname) ==
    [i \in 1..Len(NavLinks) |-> ParseURL(NavLinks[i]).pathname = pathname]

LocOf(u) == [pathname |-> u.pathname, search |-> u.search]
LocHref(l) == <<Scheme, Origin>> \o l.pathname \o l.search

\* history.pushState(state, "", pathAndSearch): the URL is resolved against
\* the document's URL; a cross-origin result raises a SecurityError.
pushTarget(pathAndSearch) == ParseURL(pathAndSearch)
pushAllowed(pathAndSearch) ==
    pushTarget(pathAndSearch).ok /\ pushTarget(pathAndSearch).host = Origin
replaceState(h, pathAndSearch) ==
    [h EXCEPT !.entries[h.idx] = LocOf(pushTarget(pathAndSearch))]

pushState(h, pathAndSearch) ==
    [entries |-> Append(SubSeq(h.entries, 1, h.idx), LocOf(pushTarget(pathAndSearch))),
     idx |-> h.idx + 1]

-----------------------------------------------------------------------------
(* Click events *)

InitLocs == { [pathname |-> <<Slash, "a", Slash>>, search |-> <<>>] }

\* A click: whether the target has an ancestor anchor, the anchor's
\* data-spa / data-no-spa attributes and href attribute (<<>>: empty),
\* the mouse button and the modifier keys.
PlainClick(h) ==
    [anchor |-> TRUE, spa |-> TRUE, nospa |-> FALSE, button |-> 0, meta |-> FALSE,
     ctrl |-> FALSE, shift |-> FALSE, alt |-> FALSE, href |-> h]

ClickHrefs ==
    { <<>>,
      <<Slash>>,
      <<Slash, "a", Slash>>,
      <<Slash, "b", Query>>,
      <<Scheme, Origin, Slash, Slash, "a">>,
      <<Scheme, "other", Slash, "a">>,
      <<Scheme, "[">> }

OddClicks ==
    LET c == PlainClick(<<Slash, "a">>)
    IN  { [c EXCEPT !.anchor = FALSE],
          [c EXCEPT !.spa = FALSE],
          [c EXCEPT !.nospa = TRUE],
          [c EXCEPT !.button = 1],
          [c EXCEPT !.meta = TRUE],
          [c EXCEPT !.ctrl = TRUE],
          [c EXCEPT !.shift = TRUE],
          [c EXCEPT !.alt = TRUE] }

ClickInputs == {PlainClick(h) : h \in ClickHrefs} \cup OddClicks

NoClick == PlainClick(<<>>)

\* ev after a step that is no click: kind "load", "popstate" or "task"
NoEvent(kind) == [kind |-> kind, c |-> NoClick, prevented |-> FALSE, n0 |-> 0]

\* The click listener of the robust variant: "pass" (returns without
\* preventDefault), "noop" (preventDefault only), "load" (preventDefault and
\* loadPage(href, true)).
modifierClickWrongButton(c) == c.button # 1 \/ c.meta \/ c.ctrl \/ c.shift \/ c.alt
modifierClickNoAlt(c) == c.button # 0 \/ c.meta \/ c.ctrl \/ c.shift

\* event.button !== 0 || event.metaKey || event.ctrlKey || event.shiftKey || event.altKey
modifierClick(c) == c.button # 0 \/ c.meta \/ c.ctrl \/ c.shift \/ c.alt

samePageNever(u, l) == FALSE

\* normalizePath(u.pathname) === normalizePath(window.location.pathname)
\*   && u.search === window.location.search
samePage(u, l) ==
    normalizePath(u.pathname) = normalizePath(l.pathname) /\ u.search = l.search

clickDecision(c, l) ==
    IF ~c.anchor THEN "pass"
    ELSE IF c.nospa THEN "pass"
    ELSE IF ~c.spa THEN "pass"
    ELSE IF modifierClick(c) THEN "pass"
    ELSE IF c.href = <<>> THEN "pass"
    ELSE IF ~ParseURL(c.href).ok THEN "pass"
    ELSE IF ParseURL(c.href).host # Origin THEN "pass"
    ELSE IF samePage(ParseURL(c.href), l) THEN "noop"
    ELSE "load"

\* The clicks that can start a navigation
LoadClicks == {PlainClick(h) : h \in {g \in ClickHrefs : clickDecision(PlainClick(g), [pathname |-> <<"none">>, search |-> <<>>]) = "load"}}

\* link.href: the href attribute resolved against the document's URL (the
\* attribute itself when it cannot be parsed).
RECURSIVE Dir(_)
Dir(p) == IF p = <<>> \/ EndsWithSlash(p) THEN p ELSE Dir(Front(p))

LinkHref(attr, l) ==
    IF attr = <<>> THEN LocHref(l)
    ELSE IF ~ParseURL(attr).ok THEN attr
    ELSE IF Head(attr) \in {Scheme, Slash} THEN Href(ParseURL(attr))
    ELSE IF Head(attr) = Query THEN <<Scheme, Origin>> \o l.pathname \o attr
    ELSE <<Scheme, Origin>> \o Dir(l.pathname) \o attr

\* The click listener of the third variant (src/spa-nav.js): same results,
\* and the URL handed to loadPage.
clickDecision3(c, l) ==
    LET url == ParseURL(LinkHref(c.href, l))
    IN  IF ~(c.anchor /\ c.spa) THEN "pass"
        ELSE IF ~url.ok THEN "pass"
        ELSE IF url.host # Origin THEN "pass"
        ELSE IF url.pathname = l.pathname /\ url.search = l.search THEN "noop"
        ELSE "load"

-----------------------------------------------------------------------------
(* loadPage *)

Diff(name, old, new) == IF old # new THEN {name} ELSE {}

\* One loadPage invocation.  pc: "fetch" (awaiting the response of candidate
\* i), "preload" (awaiting the image preload), "frame" (awaiting the
\* animation frame), "done", "hard" (window.location.href assigned: target,
\* reason), "aborted" (an exception left the async function).
\* variants: the candidate URLs buildVariants returned to this invocation;
\* reqs: the URLs requested so far; status: whether the response whose body
\* became doc had an ok status ("none": no body accepted); touched: the parts
\* of the live page this invocation has changed ("scroll": window.scrollTo,
\* "anim": runPageEnterAnimations).
NewNav(href, push) ==
    [href |-> href, push |-> push, pc |-> "fetch", variants |-> <<>>, i |-> 1,
     reqs |-> <<>>, doc |-> NoDoc, status |-> "none", touched |-> {}, target |-> <<>>,
     reason |-> ""]

\* res.ok of the response whose text was accepted
StatusOf(r) == IF r.ok THEN "ok" ELSE "notok"

HardLastTried(nav, target, reason) ==
    [nav EXCEPT !.pc = "hard", !.reason = reason,
                !.target = IF nav.reqs = <<>> THEN target ELSE Last(nav.reqs)]

HardSilent(nav, target, reason) == [nav EXCEPT !.pc = "hard", !.reason = reason]

\* window.location.href = target; return;
Hard(nav, target, reason) ==
    [nav EXCEPT !.pc = "hard", !.target = target, !.reason = reason]

shouldPushAlways(nav) == TRUE

\* if (pushState) history.pushState(...)
shouldPush(nav) == nav.push

\* loadPage up to its first await (robust variant)
loadPageStart(href, push) ==
    LET url == ParseURL(href)
        variants == buildVariants(Href(url))
    IN  IF ~url.ok
          THEN Hard(NewNav(href, push), href, "badurl")
          ELSE [NewNav(href, push) EXCEPT !.variants = variants,
                                          !.reqs = <<variants[1]>>]

\* loadPage up to its first await (third variant): fetch(url.pathname + url.search)
loadPage3Start(urlString, push) ==
    LET url == ParseURL(urlString)
        req == ParseURL(PathSearch(url))
    IN  IF ~url.ok \/ ~req.ok
          THEN Hard(NewNav(urlString, push), urlString, "threw")
          ELSE [NewNav(urlString, push) EXCEPT !.pc = "fetch3", !.reqs = <<Href(req)>>]

-----------------------------------------------------------------------------
(* The page *)

InitialTitle == <<"title", "initial">>
InitialMount(l) ==
    [u |-> LocHref(l), b |-> "initial", frag |-> "main", scripts |-> 0, run |-> 0]
InitialAssets(l) == <<[from |-> LocHref(l), tag |-> "style", n |-> 1]>>

\* The page as served, after the script ran and DOMContentLoaded fired.
Init ==
    /\ variant \in {"robust", "third"}
    /\ loc \in InitLocs
    /\ hist = [entries |-> <<loc>>, idx |-> 1]
    /\ pushCount = 0
    /\ liveMain \in {"app", "none"}
    /\ mount = InitialMount(loc)
    /\ visible = TRUE
    /\ title = InitialTitle
    /\ headAssets = InitialAssets(loc)
    /\ active = IF variant = "robust" THEN setActiveNav(loc.pathname)
                                      ELSE setActiveNav3(loc.pathname)
    /\ rootClass = {}
    /\ navs = <<>>
    /\ call = NoCall
    /\ ev = NoEvent("load")
    /\ opacity = 1
    /\ InitComponent

\* document "click" listener, robust variant
Click(c, cap) ==
    /\ variant = "robust"
    /\ clickDecision(c, loc) = "load" => Len(navs) < cap
    /\ ev' = [kind |-> "click", c |-> c,
              prevented |-> clickDecision(c, loc) # "pass", n0 |-> Len(navs)]
    /\ navs' = IF clickDecision(c, loc) = "load"
                 THEN Append(navs, loadPageStart(c.href, TRUE))
                 ELSE navs
    /\ UNCHANGED <<variant, pokedex, opacity, call, rootClass, loc, hist, pushCount, liveMain, mount, visible, title,
                   headAssets, active>>

\* window "popstate" listener: the user went to another entry of the session
\* history; the browser has already set the location.
Popstate(k, cap) ==
    /\ variant = "robust"
    /\ Len(navs) < cap
    /\ k \in 1..Len(hist.entries)
    /\ k # hist.idx
    /\ hist' = [hist EXCEPT !.idx = k]
    /\ loc' = hist.entries[k]
    /\ ev' = NoEvent("popstate")
    /\ navs' = Append(navs, loadPageStart(LocHref(loc'), FALSE))
    /\ UNCHANGED <<variant, pokedex, opacity, call, rootClass, pushCount, liveMain, mount, visible, title, headAssets, active>>

\* tryFetchVariants: the response of candidate i arrives (or the request
\* throws); on a usable document loadPage goes on to its next await.
FetchSettle(n, r) ==
    LET nav == navs[n]
        url == ParseURL(nav.href)
        variants == nav.variants
        usable == r.kind = "res" /\ looksLikeHtml(Body(r.body))
        parsedDoc == parseHtml(variants[nav.i], r.body)
        rep == replacePageAssets(parsedDoc)
        doc == IF rep.threw THEN cloneNode(parsedDoc, "assets")
                            ELSE cloneNode(cloneNode(parsedDoc, "assets"), "fragment")
        t == nav.touched \cup Diff("assets", headAssets, rep.head)
    IN  /\ n \in 1..Len(navs)
        /\ nav.pc = "fetch"
        /\ IF ~usable
             THEN /\ navs' = [navs EXCEPT ![n] =
                        IF nav.i < Len(variants)
                          THEN [nav EXCEPT !.i = nav.i + 1,
                                           !.reqs = Append(nav.reqs, variants[nav.i + 1])]
                          ELSE Hard(nav, Href(url), "nofetch")]
                  /\ UNCHANGED headAssets
             ELSE /\ headAssets' = rep.head
                  /\ navs' = [navs EXCEPT ![n] =
                        IF rep.threw
                          THEN Hard([nav EXCEPT !.doc = doc, !.status = StatusOf(r),
                                                !.touched = t],
                                    Href(url), "assets")
                          ELSE [nav EXCEPT !.doc = doc, !.status = StatusOf(r),
                                           !.touched = t, !.pc = "preload"]]
        /\ ev' = NoEvent("task")
        /\ UNCHANGED <<variant, pokedex, opacity, call, rootClass, loc, hist, pushCount, liveMain, mount, visible, title,
                       active>>

\* preloadImagesWithin settled: loadPage looks up the live mount point, hides
\* it and waits for an animation frame.
ImagesSettle(n) ==
    LET nav == navs[n]
        url == ParseURL(nav.href)
    IN  /\ n \in 1..Len(navs)
        /\ nav.pc = "preload"
        /\ IF liveMain = "none"
             THEN /\ navs' = [navs EXCEPT ![n] = Hard(nav, Href(url), "nomain")]
                  /\ UNCHANGED visible
             ELSE /\ navs' = [navs EXCEPT ![n].pc = "frame"]
                  /\ visible' = FALSE
        /\ ev' = NoEvent("task")
        /\ UNCHANGED <<variant, pokedex, opacity, call, rootClass, loc, hist, pushCount, liveMain, mount, title,
                       headAssets, active>>

\* The animation frame: content swap, title, history, reveal, active link.
Frame(n) ==
    LET nav == navs[n]
        url == ParseURL(nav.href)
        content == Content(nav.doc, findReplacementFragment(nav.doc))
        newTitle == extractTitleFromDoc(nav.doc, title)
        title1 == IF newTitle # <<>> THEN newTitle ELSE title
        pushes == shouldPush(nav)
        throws == pushes /\ ~pushAllowed(PathSearch(url))
        hist1 == IF pushes /\ ~throws THEN pushState(hist, PathSearch(url)) ELSE hist
        active1 == IF throws THEN active ELSE setActiveNav(url.pathname)
        t == nav.touched \cup Diff("mount", mount, content) \cup Diff("title", title, title1)
               \cup Diff("history", hist, hist1) \cup Diff("active", active, active1)
               \cup (IF throws THEN {} ELSE {"scroll", "anim"})
    IN  /\ n \in 1..Len(navs)
        /\ nav.pc = "frame"
        /\ mount' = content
        /\ title' = title1
        /\ hist' = hist1
        /\ loc' = hist1.entries[hist1.idx]
        /\ pushCount' = IF pushes /\ ~throws THEN pushCount + 1 ELSE pushCount
        /\ visible' = IF throws THEN visible ELSE TRUE
        /\ active' = active1
        /\ navs' = [navs EXCEPT ![n] =
                      [nav EXCEPT !.touched = t,
                                  !.pc = IF throws THEN "aborted" ELSE "done"]]
        /\ ev' = NoEvent("task")
        /\ UNCHANGED <<variant, pokedex, opacity, call, rootClass, liveMain, headAssets>>

-----------------------------------------------------------------------------
(* Third variant (src/spa-nav.js): one fetch, everything in one try block *)

Click3(c, cap) ==
    /\ variant = "third"
    /\ clickDecision3(c, loc) = "load" => Len(navs) < cap
    /\ ev' = [kind |-> "click", c |-> c,
              prevented |-> clickDecision3(c, loc) # "pass", n0 |-> Len(navs)]
    /\ navs' = IF clickDecision3(c, loc) = "load"
                 THEN Append(navs, loadPage3Start(Href(ParseURL(LinkHref(c.href, loc))), TRUE))
                 ELSE navs
    /\ UNCHANGED <<variant, pokedex, opacity, call, rootClass, loc, hist, pushCount, liveMain, mount, visible, title,
                   headAssets, active>>

Popstate3(k, cap) ==
    /\ variant = "third"
    /\ Len(navs) < cap
    /\ k \in 1..Len(hist.entries)
    /\ k # hist.idx
    /\ hist' = [hist EXCEPT !.idx = k]
    /\ loc' = hist.entries[k]
    /\ ev' = NoEvent("popstate")
    /\ navs' = Append(navs, loadPage3Start(LocHref(loc'), FALSE))
    /\ UNCHANGED <<variant, pokedex, opacity, call, rootClass, pushCount, liveMain, mount, visible, title, headAssets, active>>

\* The response arrives: the rest of loadPage runs without another await.
FetchSettle3(n, r) ==
    LET nav == navs[n]
        url == ParseURL(nav.href)
        doc == cloneNode(parseHtml(nav.reqs[1], r.body), "main")
        noMain == Body(r.body).main \notin {"app", "plain"} \/ liveMain # "app"
        swaps == r.kind = "res" /\ r.ok /\ ~noMain
        content == Content3(doc)
        title1 == IF Body(r.body).title = "some" THEN <<"title", doc.b, doc.u>> ELSE title
        throws == nav.push /\ ~pushAllowed(PathSearch(url))
        pushes == swaps /\ nav.push /\ ~throws
        hist1 == IF pushes THEN pushState(hist, PathSearch(url)) ELSE hist
        active1 == IF swaps /\ ~throws THEN setActiveNav3(url.pathname) ELSE active
        t == IF swaps
               THEN Diff("mount", mount, content) \cup Diff("title", title, title1)
                      \cup Diff("history", hist, hist1) \cup Diff("active", active, active1)
                      \cup (IF throws THEN {} ELSE {"scroll", "anim"})
               ELSE {}
    IN  /\ n \in 1..Len(navs)
        /\ nav.pc = "fetch3"
        /\ mount' = IF swaps THEN content ELSE mount
        /\ title' = IF swaps THEN title1 ELSE title
        /\ hist' = hist1
        /\ loc' = hist1.entries[hist1.idx]
        /\ pushCount' = IF pushes THEN pushCount + 1 ELSE pushCount
        /\ active' = active1
        /\ navs' = [navs EXCEPT ![n] =
              IF r.kind = "throw" THEN Hard(nav, nav.href, "threw")
              ELSE IF ~r.ok THEN Hard(nav, Href(url), "status")
              ELSE IF noMain THEN Hard([nav EXCEPT !.doc = doc, !.status = StatusOf(r)],
                                       Href(url), "nomain")
              ELSE IF throws THEN Hard([nav EXCEPT !.doc = doc, !.status = StatusOf(r),
                                                   !.touched = t],
                                       nav.href, "threw")
              ELSE [nav EXCEPT !.doc = doc, !.status = StatusOf(r), !.touched = t,
                               !.pc = "done"]]
        /\ ev' = NoEvent("task")
        /\ UNCHANGED <<variant, pokedex, opacity, call, rootClass, liveMain, visible, headAssets>>

-----------------------------------------------------------------------------

\* The responses of a server that serves every page or fails
ClickResponses == {r \in Responses : r.kind = "throw" \/ (r.ok /\ r.body = "full")}

\* The whole pipeline, under the clicks that can start a navigation
Next ==
    \/ \E c \in LoadClicks : Click(c, MaxNavs)
    \/ \E k \in 1..MaxNavs : Popstate(k, MaxNavs)
    \/ \E n \in 1..MaxNavs : \E r \in Responses : FetchSettle(n, r)
    \/ \E n \in 1..MaxNavs : ImagesSettle(n)
    \/ \E n \in 1..MaxNavs : Frame(n)
    \/ \E c \in LoadClicks : Click3(c, MaxNavs)
    \/ \E k \in 1..MaxNavs : Popstate3(k, MaxNavs)
    \/ \E n \in 1..MaxNavs : \E r \in Responses : FetchSettle3(n, r)

Spec == Init /\ [][Next]_vars

\* The click listeners, under every click and without history traversal
NextClicks ==
    \/ \E c \in ClickInputs : Click(c, MaxClickNavs)
    \/ \E n \in 1..MaxClickNavs : \E r \in ClickResponses : FetchSettle(n, r)
    \/ \E n \in 1..MaxClickNavs : ImagesSettle(n)
    \/ \E n \in 1..MaxClickNavs : Frame(n)
    \/ \E c \in ClickInputs : Click3(c, MaxClickNavs)
    \/ \E n \in 1..MaxClickNavs : \E r \in ClickResponses : FetchSettle3(n, r)

SpecClicks == Init /\ [][NextClicks]_vars

-----------------------------------------------------------------------------
(* Earlier variants of the script: "first" (src/spa-nav.js, lock / unlock /   *)
(* navigate), "stable" (src/unnamed/part_002, navigateTo) and "handler" (the  *)
(* click listener at the top of src/unnamed/part_000).  They hand the href    *)
(* attribute itself to fetch, pushState and window.location.href, which       *)
(* resolve it against the document's URL.                                     *)

\* history.pushState({}, "", url) at location l
pushAllowedAt(url, l) ==
    ParseURL(LinkHref(url, l)).ok /\ ParseURL(LinkHref(url, l)).host = Origin
pushStateAt(h, url, l) ==
    [entries |-> Append(SubSeq(h.entries, 1, h.idx), LocOf(ParseURL(LinkHref(url, l)))),
     idx |-> h.idx + 1]

\* a.classList.toggle("active", a.getAttribute("href") === url)
toggleActive(url) == [i \in 1..Len(NavLinks) |-> NavLinks[i] = url]

\* doc.querySelector("main"), moved into the live document by replaceWith:
\* scripts made by DOMParser do not run when they are inserted.
MainElement(doc) ==
    [u |-> doc.u, b |-> doc.b, frag |-> "main",
     scripts |-> Body(doc.b).scripts, run |-> 0]

\* e.target.closest("a[data-spa]") and !url || url.startsWith("http")
spaClick(c) == c.anchor /\ c.spa /\ c.href # <<>> /\ Head(c.href) # Scheme

\* The clicks of the earlier variants
VariantClicks ==
    {PlainClick(h) : h \in {<<>>, <<Slash>>, <<Slash, "b", Query>>,
                            <<Scheme, "other", Slash, "a">>}}
    \cup {[PlainClick(<<Slash, "a">>) EXCEPT !.nospa = TRUE]}

\* The page as served, before any click
InitVariants ==
    /\ variant \in {"first", "stable", "handler"}
    /\ loc \in InitLocs
    /\ hist = [entries |-> <<loc>>, idx |-> 1]
    /\ pushCount = 0
    /\ liveMain \in {"app", "none"}
    /\ mount = InitialMount(loc)
    /\ visible = TRUE
    /\ title = InitialTitle
    /\ headAssets = InitialAssets(loc)
    /\ active = setActiveNav(loc.pathname)
    /\ rootClass = IF variant = "first" THEN {"ready"} ELSE {}
    /\ navs = <<>>
    /\ call = NoCall
    /\ ev = NoEvent("load")
    /\ opacity = 1
    /\ InitComponent

(* First variant: src/spa-nav.js, lines 1-72 *)

lock(cls) == (cls \ {"ready"}) \cup {"spa-loading"}

\* the animation-frame callback of unlock()
unlock(cls) == (cls \ {"spa-loading"}) \cup {"ready"}

\* navigate(url, push) up to its first await
navigateStart(url, push, l) ==
    [NewNav(url, push) EXCEPT !.pc = "fetch1", !.reqs = <<LinkHref(url, l)>>]

Click1(c) ==
    /\ variant = "first"
    /\ spaClick(c) => Len(navs) < MaxVariantNavs
    /\ ev' = [kind |-> "click", c |-> c, prevented |-> spaClick(c), n0 |-> Len(navs)]
    /\ IF spaClick(c)
         THEN /\ rootClass' = lock(rootClass)
              /\ navs' = Append(navs, navigateStart(c.href, TRUE, loc))
         ELSE UNCHANGED <<rootClass, navs>>
    /\ UNCHANGED <<variant, pokedex, opacity, call, loc, hist, pushCount, liveMain, mount, visible, title,
                   headAssets, active>>

\* navigate(location.pathname, false)
Popstate1(k) ==
    /\ variant = "first"
    /\ Len(navs) < MaxVariantNavs
    /\ k \in 1..Len(hist.entries)
    /\ k # hist.idx
    /\ hist' = [hist EXCEPT !.idx = k]
    /\ loc' = hist.entries[k]
    /\ ev' = NoEvent("popstate")
    /\ rootClass' = lock(rootClass)
    /\ navs' = Append(navs, navigateStart(loc'.pathname, FALSE, loc'))
    /\ UNCHANGED <<variant, pokedex, opacity, call, pushCount, liveMain, mount, visible, title, headAssets, active>>

\* The response arrives: swap of <main>, active link, history, unlock()
FetchSettle1(n, r) ==
    LET nav == navs[n]
        url == nav.href
        newMain == Body(r.body).main
        noMain == newMain = "none" \/ liveMain = "none"
        swaps == r.kind = "res" /\ ~noMain
        doc == IF swaps THEN moveNode(parseHtml(nav.reqs[1], r.body), "main")
                        ELSE parseHtml(nav.reqs[1], r.body)
        throws == nav.push /\ ~pushAllowedAt(url, loc)
        pushes == swaps /\ nav.push /\ ~throws
        hist1 == IF pushes THEN pushStateAt(hist, url, loc) ELSE hist
        active1 == IF swaps THEN toggleActive(url) ELSE active
        t == IF swaps
               THEN Diff("mount", mount, MainElement(doc)) \cup Diff("active", active, active1)
                      \cup Diff("history", hist, hist1)
               ELSE {}
    IN  /\ variant = "first"
        /\ n \in 1..Len(navs)
        /\ nav.pc = "fetch1"
        /\ mount' = IF swaps THEN MainElement(doc) ELSE mount
        /\ liveMain' = IF swaps THEN newMain ELSE liveMain
        /\ active' = active1
        /\ hist' = hist1
        /\ loc' = hist1.entries[hist1.idx]
        /\ pushCount' = IF pushes THEN pushCount + 1 ELSE pushCount
        /\ navs' = [navs EXCEPT ![n] =
              IF r.kind = "throw" THEN Hard(nav, LinkHref(url, loc), "threw")
              ELSE IF noMain THEN Hard([nav EXCEPT !.doc = doc, !.status = StatusOf(r)],
                                       LinkHref(url, loc), "nomain")
              ELSE IF throws THEN Hard([nav EXCEPT !.doc = doc, !.status = StatusOf(r),
                                                   !.touched = t],
                                       LinkHref(url, loc), "threw")
              ELSE [nav EXCEPT !.doc = doc, !.status = StatusOf(r), !.touched = t,
                               !.pc = "unlock"]]
        /\ ev' = NoEvent("task")
        /\ UNCHANGED <<variant, pokedex, opacity, call, rootClass, visible, title, headAssets>>

\* The animation frame requested by unlock()
Unlock1(n) ==
    /\ variant = "first"
    /\ n \in 1..Len(navs)
    /\ navs[n].pc = "unlock"
    /\ rootClass' = unlock(rootClass)
    /\ navs' = [navs EXCEPT ![n].pc = "done"]
    /\ ev' = NoEvent("task")
    /\ UNCHANGED <<variant, pokedex, opacity, call, loc, hist, pushCount, liveMain, mount, visible, title,
                   headAssets, active>>

(* "Stable" variant: src/unnamed/part_002 *)

\* replacePageStyles(doc): as replacePageAssets
replacePageStyles(doc) == replacePageAssets(doc)

\* extractPageContent(doc): the innerHTML of the non-empty .page-enter, else
\* of main#app, else "" (frag "none")
extractPageContent(doc) ==
    LET frag == IF Body(doc.b).pe = "full" THEN "pe"
                ELSE IF Body(doc.b).main = "app" THEN "main"
                ELSE "none"
    IN  [u |-> doc.u, b |-> doc.b, frag |-> frag,
         scripts |-> IF frag = "none" THEN 0 ELSE Body(doc.b).scripts, run |-> 0]

\* navigateTo(url) up to the fetch; push records the caller: TRUE for the
\* click listener, FALSE for the popstate listener.
navigateToStart(url, fromClick, l) ==
    [NewNav(url, fromClick) EXCEPT !.pc = "fetchS", !.reqs = <<LinkHref(url, l)>>]

\* handleLinkClick
stableClick(c) == c.anchor /\ ~c.nospa /\ c.spa

ClickS(c) ==
    /\ variant = "stable"
    /\ stableClick(c) => Len(navs) < MaxVariantNavs
    /\ ev' = [kind |-> "click", c |-> c, prevented |-> stableClick(c), n0 |-> Len(navs)]
    /\ navs' = IF stableClick(c) THEN Append(navs, navigateToStart(c.href, TRUE, loc))
                                 ELSE navs
    /\ UNCHANGED <<variant, pokedex, opacity, call, rootClass, loc, hist, pushCount, liveMain, mount, visible,
                   title, headAssets, active>>

\* navigateTo(window.location.pathname)
PopstateS(k) ==
    /\ variant = "stable"
    /\ Len(navs) < MaxVariantNavs
    /\ k \in 1..Len(hist.entries)
    /\ k # hist.idx
    /\ hist' = [hist EXCEPT !.idx = k]
    /\ loc' = hist.entries[k]
    /\ ev' = NoEvent("popstate")
    /\ navs' = Append(navs, navigateToStart(loc'.pathname, FALSE, loc'))
    /\ UNCHANGED <<variant, pokedex, opacity, call, rootClass, pushCount, liveMain, mount, visible, title,
                   headAssets, active>>

\* The then-callback of fetchPage(url); a rejected fetch or an exception in
\* the callback is handled nowhere ("stuck", "aborted").
\* reason: "nofetch" (the fetch rejected), "assets" (replacePageStyles threw),
\* "nomain" (no live main#app), "threw" (pushState threw), "nofrag" (the
\* document has neither fragment).
FetchSettleS(n, r) ==
    LET nav == navs[n]
        url == nav.href
        doc == cloneNode(cloneNode(parseHtml(nav.reqs[1], r.body), "assets"), "fragment")
        rep == replacePageStyles(doc)
        newContent == extractPageContent(doc)
        ran == r.kind = "res"
        swaps == ran /\ ~rep.threw /\ liveMain = "app"
        pushes == swaps /\ pushAllowedAt(url, loc)
        hist1 == IF pushes THEN pushStateAt(hist, url, loc) ELSE hist
        t == (IF ran THEN Diff("assets", headAssets, rep.head) ELSE {})
               \cup (IF swaps THEN Diff("mount", mount, newContent) \cup {"anim"} ELSE {})
               \cup Diff("history", hist, hist1)
    IN  /\ variant = "stable"
        /\ n \in 1..Len(navs)
        /\ nav.pc = "fetchS"
        /\ headAssets' = IF ran THEN rep.head ELSE headAssets
        /\ mount' = IF swaps THEN newContent ELSE mount
        /\ hist' = hist1
        /\ loc' = hist1.entries[hist1.idx]
        /\ pushCount' = IF pushes THEN pushCount + 1 ELSE pushCount
        /\ navs' = [navs EXCEPT ![n] =
              IF ~ran THEN [nav EXCEPT !.pc = "stuck", !.reason = "nofetch"]
              ELSE [nav EXCEPT !.doc = doc, !.status = StatusOf(r), !.touched = t,
                               !.pc = IF pushes THEN "done" ELSE "aborted",
                               !.reason = IF rep.threw THEN "assets"
                                          ELSE IF liveMain # "app" THEN "nomain"
                                          ELSE IF ~pushes THEN "threw"
                                          ELSE IF newContent.frag = "none" THEN "nofrag"
                                          ELSE ""]]
        /\ ev' = NoEvent("task")
        /\ UNCHANGED <<variant, pokedex, opacity, call, rootClass, liveMain, visible, title, active>>

(* Click listener at the top of src/unnamed/part_000 *)

ClickH(c) ==
    /\ variant = "handler"
    /\ spaClick(c) => Len(navs) < MaxVariantNavs
    /\ ev' = [kind |-> "click", c |-> c, prevented |-> spaClick(c), n0 |-> Len(navs)]
    /\ IF spaClick(c)
         THEN /\ rootClass' = rootClass \cup {"spa-loading"}
              /\ navs' = Append(navs, [NewNav(c.href, TRUE) EXCEPT
                                          !.pc = "fetchH", !.reqs = <<LinkHref(c.href, loc)>>])
         ELSE UNCHANGED <<rootClass, navs>>
    /\ UNCHANGED <<variant, pokedex, opacity, call, loc, hist, pushCount, liveMain, mount, visible, title,
                   headAssets, active>>

\* window "popstate" listener: location.reload().  The document is replaced
\* by the page served for the entry's URL; what was pending is gone.
PopstateH(k) ==
    /\ variant = "handler"
    /\ k \in 1..Len(hist.entries)
    /\ k # hist.idx
    /\ hist' = [hist EXCEPT !.idx = k]
    /\ loc' = hist.entries[k]
    /\ liveMain' \in {"app", "none"}
    /\ mount' = InitialMount(loc')
    /\ title' = InitialTitle
    /\ headAssets' = InitialAssets(loc')
    /\ active' = setActiveNav(loc'.pathname)
    /\ rootClass' = {}
    /\ navs' = [n \in 1..Len(navs) |->
                  IF navs[n].pc \in {"fetchH", "unlockH"}
                    THEN [navs[n] EXCEPT !.pc = "unloaded"] ELSE navs[n]]
    /\ ev' = NoEvent("popstate")
    /\ UNCHANGED <<variant, pokedex, opacity, call, pushCount, visible>>

\* The response arrives: the try block, the catch block and the finally
\* block, which requests the animation frame that unlocks the paint.
FetchSettleH(n, r) ==
    LET nav == navs[n]
        url == nav.href
        newMain == Body(r.body).main
        ran == r.kind = "res"
        swaps == ran /\ newMain # "none" /\ liveMain # "none"
        doc == IF swaps THEN moveNode(parseHtml(nav.reqs[1], r.body), "main")
                        ELSE parseHtml(nav.reqs[1], r.body)
        pushes == ran /\ pushAllowedAt(url, loc)
        hist1 == IF pushes THEN pushStateAt(hist, url, loc) ELSE hist
        active1 == IF ran THEN toggleActive(url) ELSE active
        t == (IF swaps THEN Diff("mount", mount, MainElement(doc)) ELSE {})
               \cup Diff("active", active, active1) \cup Diff("history", hist, hist1)
        nav1 == IF ran THEN [nav EXCEPT !.doc = doc, !.status = StatusOf(r), !.touched = t]
                       ELSE nav
    IN  /\ variant = "handler"
        /\ n \in 1..Len(navs)
        /\ nav.pc = "fetchH"
        /\ mount' = IF swaps THEN MainElement(doc) ELSE mount
        /\ liveMain' = IF swaps THEN newMain ELSE liveMain
        /\ active' = active1
        /\ hist' = hist1
        /\ loc' = hist1.entries[hist1.idx]
        /\ pushCount' = IF pushes THEN pushCount + 1 ELSE pushCount
        /\ navs' = [navs EXCEPT ![n] =
              IF pushes THEN [nav1 EXCEPT !.pc = "unlockH"]
              ELSE [Hard(nav1, LinkHref(url, loc), "threw") EXCEPT !.pc = "unlockH"]]
        /\ ev' = NoEvent("task")
        /\ UNCHANGED <<variant, pokedex, opacity, call, rootClass, visible, title, headAssets>>

\* The animation frame requested in the finally block
UnlockH(n) ==
    /\ variant = "handler"
    /\ n \in 1..Len(navs)
    /\ navs[n].pc = "unlockH"
    /\ rootClass' = rootClass \ {"spa-loading"}
    /\ navs' = [navs EXCEPT ![n].pc = IF navs[n].reason = "" THEN "done" ELSE "hard"]
    /\ ev' = NoEvent("task")
    /\ UNCHANGED <<variant, pokedex, opacity, call, loc, hist, pushCount, liveMain, mount, visible, title,
                   headAssets, active>>

NextVariants ==
    \/ \E c \in VariantClicks : Click1(c)
    \/ \E k \in 1..(MaxVariantNavs + 1) : Popstate1(k)
    \/ \E n \in 1..MaxVariantNavs : \E r \in Responses : FetchSettle1(n, r)
    \/ \E n \in 1..MaxVariantNavs : Unlock1(n)
    \/ \E c \in VariantClicks : ClickS(c)
    \/ \E k \in 1..(MaxVariantNavs + 1) : PopstateS(k)
    \/ \E n \in 1..MaxVariantNavs : \E r \in Responses : FetchSettleS(n, r)
    \/ \E c \in VariantClicks : ClickH(c)
    \/ \E k \in 1..(MaxVariantNavs + 1) : PopstateH(k)
    \/ \E n \in 1..MaxVariantNavs : \E r \in Responses : FetchSettleH(n, r)
    \/ \E n \in 1..MaxVariantNavs : UnlockH(n)

SpecVariants == InitVariants /\ [][NextVariants]_vars

-----------------------------------------------------------------------------
(* The helper functions on their own: normalizePath and buildVariants of   *)
(* the robust variant, updateActiveNav of src/unnamed/part_000.            *)

\* The pathnames: "" and the token sequences that begin with a slash.  Two
\* adjacent segment tokens make one segment: "/", "a", "b" is the path "/ab".
PathTokens == {Slash, "a", "b"}
Paths ==
    {<<>>} \cup {p \in UNION {[1..n -> PathTokens] : n \in 1..MaxPathLen} : p[1] = Slash}

\* url.href of the requests: a URL of the page's origin, with or without query
RequestHrefs ==
    {<<Scheme, Origin>> \o p \o q : p \in Paths \ {<<>>}, q \in {<<>>, <<Query>>}}

\* s.replace(/\/$/, "")
stripSlash(s) == IF EndsWithSlash(s) THEN Front(s) ELSE s

\* s.startsWith(prefix)
startsWith(s, prefix) ==
    Len(prefix) <= Len(s) /\ SubSeq(s, 1, Len(prefix)) = prefix

\* href attributes of the links ".nav a" of the bookshelf pages
BookNavLinks == << <<Slash>>, <<Slash, "a">>, <<Slash, "b", Slash>> >>

\* updateActiveNav(): which links carry "active" afterwards, given
\* window.location.pathname
updateActiveNav(currentPath) ==
    [i \in 1..Len(BookNavLinks) |->
        LET href == BookNavLinks[i]
            linkPath == stripSlash(href)
            locationPath == stripSlash(currentPath)
            isActive == \/ linkPath = locationPath
                        \/ /\ linkPath # <<>>
                           /\ linkPath # <<Slash>>
                           /\ startsWith(locationPath, linkPath)
        IN  IF href = <<Slash>> /\ currentPath # <<Slash>> THEN FALSE ELSE isActive]

InitFunctions ==
    /\ variant = "none"
    /\ loc \in InitLocs
    /\ hist = [entries |-> <<loc>>, idx |-> 1]
    /\ pushCount = 0
    /\ liveMain = "app"
    /\ mount = InitialMount(loc)
    /\ visible = TRUE
    /\ title = InitialTitle
    /\ headAssets = InitialAssets(loc)
    /\ active = setActiveNav(loc.pathname)
    /\ rootClass = {}
    /\ navs = <<>>
    /\ call = NoCall
    /\ ev = NoEvent("load")
    /\ opacity = 1
    /\ InitComponent

CallNormalizePath(p) ==
    /\ call' = [f |-> "normalizePath", arg |-> p, out |-> normalizePath(p)]
    /\ UNCHANGED <<variant, pokedex, opacity, loc, hist, pushCount, liveMain, mount, visible, title,
                   headAssets, active, rootClass, navs, ev>>

CallBuildVariants(requestHref) ==
    /\ call' = [f |-> "buildVariants", arg |-> requestHref,
                out |-> buildVariants(requestHref)]
    /\ UNCHANGED <<variant, pokedex, opacity, loc, hist, pushCount, liveMain, mount, visible, title,
                   headAssets, active, rootClass, navs, ev>>

CallUpdateActiveNav(currentPath) ==
    /\ call' = [f |-> "updateActiveNav", arg |-> currentPath,
                out |-> updateActiveNav(currentPath)]
    /\ UNCHANGED <<variant, pokedex, opacity, loc, hist, pushCount, liveMain, mount, visible, title,
                   headAssets, active, rootClass, navs, ev>>

NextFunctions ==
    \/ \E p \in Paths : CallNormalizePath(p)
    \/ \E h \in RequestHrefs : CallBuildVariants(h)
    \/ \E p \in Paths \ {<<>>} : CallUpdateActiveNav(p)

SpecFunctions == InitFunctions /\ [][NextFunctions]_vars

-----------------------------------------------------------------------------
(* Properties of the click listeners (checked under SpecClicks) *)

NoModifier(c) == c.button = 0 /\ ~c.meta /\ ~c.ctrl /\ ~c.shift /\ ~c.alt
SameOrigin(href) == ParseURL(href).ok /\ ParseURL(href).host = Origin
LocPathSearch == loc.pathname \o loc.search

\* The click of C1: an anchor with data-spa and without data-no-spa, primary
\* button, no modifier key, href of the page's own origin, normalized path
\* or query different from the location's.
C1_Case(c) ==
    /\ c.anchor /\ c.spa /\ ~c.nospa /\ NoModifier(c)
    /\ SameOrigin(c.href)
    /\ \/ normalizePath(ParseURL(c.href).pathname) # normalizePath(loc.pathname)
       \/ ParseURL(c.href).search # loc.search

C1_Intercepted ==
    /\ ev.prevented
    /\ Len(navs) = ev.n0 + 1
    /\ navs[Len(navs)].href = ev.c.href
    /\ navs[Len(navs)].push

\* C1, as stated: the robust listener prevents the default action of every
\* such click and starts loadPage exactly once, with pushState = true.
C1_AsStated ==
    (variant = "robust" /\ ev.kind = "click" /\ C1_Case(ev.c)) => C1_Intercepted

\* C1, amended: the same for every such click on an anchor whose href
\* attribute is not empty.
C1_ClickStartsLoadPageOnce ==
    (variant = "robust" /\ ev.kind = "click" /\ C1_Case(ev.c) /\ ev.c.href # <<>>)
        => C1_Intercepted

C1_Witness ==
    /\ variant = "robust" /\ ev.kind = "click" /\ C1_Case(ev.c) /\ ev.c.href # <<>>
    /\ C1_Intercepted
    /\ navs[Len(navs)].pc = "fetch"

\* A click that passes the eligibility filter of the variant's listener
C2_Eligible(c) ==
    IF variant = "robust"
      THEN c.anchor /\ c.spa /\ ~c.nospa /\ NoModifier(c) /\ c.href # <<>>
             /\ SameOrigin(c.href)
      ELSE c.anchor /\ c.spa /\ SameOrigin(LinkHref(c.href, loc))

\* path+query of the link as the variant's listener resolves it
C2_Target(c) ==
    IF variant = "robust" THEN PathSearch(ParseURL(c.href))
                          ELSE PathSearch(ParseURL(LinkHref(c.href, loc)))

C3_Case(c) ==
    \/ c.anchor /\ (~c.spa \/ c.nospa)
    \/ ~NoModifier(c)
    \/ ParseURL(c.href).ok /\ ParseURL(c.href).host # Origin

\* C3: in the robust variant a click on an anchor without data-spa or with
\* data-no-spa, or with another button or a modifier key, or to another
\* origin is not default-prevented and starts nothing: no loadPage, no change
\* of the document or the history.
C3_IneligibleClickPasses ==
    [][(variant = "robust" /\ ev'.kind = "click" /\ C3_Case(ev'.c))
         => /\ ~ev'.prevented
            /\ UNCHANGED <<navs, mount, headAssets, title, hist, loc, pushCount,
                           active, visible>>]_vars

C3_Witness ==
    /\ variant = "robust" /\ ev.kind = "click" /\ ev.c.alt /\ ~ev.prevented
    /\ \E n \in 1..Len(navs) : navs[n].pc = "fetch"

-----------------------------------------------------------------------------
(* Properties of loadPage, robust variant (checked under Spec) *)

Url(n) == ParseURL(navs[n].href)

\* origin and path of a URL string
HostPath(href) == [host |-> ParseURL(href).host, pathname |-> ParseURL(href).pathname]

\* The candidates C4 names for a request: the exact URL, its trailing-slash
\* counterpart and its directory-index form, on the request's origin.
C4_Expected(url) ==
    LET p == url.pathname
        counterpart == IF EndsWithSlash(p) THEN PathOrRoot(Front(p)) ELSE p \o <<Slash>>
        index == IF EndsWithSlash(p) THEN p \o <<"index.html">>
                                     ELSE p \o <<Slash, "index.html">>
    IN  Dedup(<<[host |-> url.host, pathname |-> p],
                [host |-> url.host, pathname |-> counterpart],
                [host |-> url.host, pathname |-> index]>>)

C4_Requested(n) == Dedup([k \in 1..Len(navs[n].reqs) |-> HostPath(navs[n].reqs[k])])

\* C4: the Fetcher requests the exact URL, then its trailing-slash
\* counterpart, then its directory-index form, in that order, and reports
\* failure only after all of them were requested.
C4_FallbackOrder ==
    \A n \in 1..Len(navs) :
        (variant = "robust" /\ navs[n].reqs # <<>>) =>
            LET want == C4_Expected(Url(n))
                got == C4_Requested(n)
            IN  /\ \A k \in 1..Len(got) : k <= Len(want) => got[k] = want[k]
                /\ navs[n].reason = "nofetch" => Len(got) >= Len(want)

\* C5: when every candidate failed, loadPage assigns the requested URL to
\* window.location.href, having requested every candidate once and having
\* changed nothing of the live page or the history.
C5_AllCandidatesFailed ==
    \A n \in 1..Len(navs) :
        (variant = "robust" /\ navs[n].reason = "nofetch") =>
            /\ navs[n].pc = "hard"
            /\ navs[n].target = Href(Url(n))
            /\ navs[n].reqs = buildVariants(Href(Url(n)))
            /\ navs[n].touched = {}
            /\ navs[n].doc = NoDoc

C5_Witness ==
    \E n \in 1..Len(navs) :
        /\ variant = "robust" /\ navs[n].reason = "nofetch"
        /\ Len(navs[n].reqs) = 3
        /\ navs[n].target = <<Scheme, Origin, Slash>>
        /\ pushCount = 1

\* nav n takes a step / completes successfully in this step
Steps(n) == navs'[n] # navs[n]
Completes(n) == navs[n].pc # "done" /\ navs'[n].pc = "done"

\* C6: no step of a navigation started by popstate pushes a history entry,
\* and the step that completes it puts the fragment of the document fetched
\* for the popped location into the mount point and marks the links of that
\* location's normalized path.
C6_PopstateNeverPushes ==
    [][\A n \in 1..Len(navs) :
          (variant = "robust" /\ ~navs[n].push /\ Steps(n)) =>
              /\ pushCount' = pushCount
              /\ hist' = hist
              /\ Completes(n) =>
                    /\ mount' = Content(navs[n].doc, findReplacementFragment(navs[n].doc))
                    /\ navs[n].doc.u \in {navs[n].reqs[k] : k \in 1..Len(navs[n].reqs)}
                    /\ HostPath(navs[n].reqs[1]) =
                         [host |-> Origin, pathname |-> Url(n).pathname]
                    /\ \A i \in 1..Len(NavLinks) :
                         active'[i] <=> normalizePath(NavLinks[i]) = normalizePath(Url(n).pathname)]_vars

C6_Witness ==
    \E n \in 1..Len(navs) :
        /\ variant = "robust" /\ ~navs[n].push /\ navs[n].pc = "done"
        /\ pushCount = 1
        /\ mount.u = LocHref(loc)
        /\ ev.kind = "task"

ActiveLinks(a) == {i \in 1..Len(NavLinks) : a[i]}
MatchingLinks(pathname) ==
    {i \in 1..Len(NavLinks) :
        normalizePath(ParseURL(NavLinks[i]).pathname) = normalizePath(pathname)}

\* C7, as stated: when a loadPage completes, exactly one navigation link is
\* active, the one whose normalized path is the new normalized path.
C7_AsStated ==
    [][\A n \in 1..Len(navs) :
          (variant = "robust" /\ Completes(n)) =>
              /\ Cardinality(ActiveLinks(active')) = 1
              /\ ActiveLinks(active') = MatchingLinks(Url(n).pathname)]_vars

\* C7, amended: when a loadPage completes, the active navigation links are
\* exactly the links whose normalized path is the new normalized path: one
\* link when the new path is that of a navigation link, none otherwise.
C7_ActiveLinksMatchPath ==
    [][\A n \in 1..Len(navs) :
          (variant = "robust" /\ Completes(n)) =>
              /\ ActiveLinks(active') = MatchingLinks(Url(n).pathname)
              /\ Cardinality(ActiveLinks(active')) =
                   IF \E i \in 1..Len(NavLinks) :
                        normalizePath(NavLinks[i]) = normalizePath(Url(n).pathname)
                     THEN 1 ELSE 0]_vars

C7_Witness ==
    \E n \in 1..Len(navs) :
        /\ variant = "robust" /\ navs[n].pc = "done" /\ ev.kind = "task"
        /\ Url(n).pathname = <<Slash>>
        /\ loc.pathname = <<Slash>>
        /\ active = <<TRUE, FALSE>>

\* C8: when a navigation completes, the page assets attached to the head are
\* exactly those of the document that navigation fetched, in document order.
C8_AssetsOfFetchedDocument ==
    [][\A n \in 1..Len(navs) :
          (variant = "robust" /\ Completes(n)) => headAssets' = PageAssets(navs[n].doc)]_vars

\* C9: a navigation that falls back to a full page load has changed neither
\* the page assets nor the mount point content nor the title.
C9_FallbackLeavesPageIntact ==
    \A n \in 1..Len(navs) :
        (variant = "robust" /\ navs[n].pc = "hard") =>
            navs[n].touched \cap {"assets", "mount", "title"} = {}

\* C10: a navigation changes nothing of the page (assets, mount point, title,
\* history, active links) once a navigation started after it has completed.
C10_NoStaleSwap ==
    [][\A n \in 1..Len(navs) :
          (variant = "robust" /\ navs'[n].touched # navs[n].touched) =>
              ~\E m \in (n + 1)..Len(navs) : navs[m].pc = "done"]_vars

-----------------------------------------------------------------------------
(* Failure handling and visual lock of loadPage, robust variant (Spec) *)

\* C11: the body of a response with a non-success status is never accepted
\* as the fetched document: every document a navigation goes on with came
\* with an ok status.
C11_NonOkNeverAccepted ==
    \A n \in 1..Len(navs) :
        (variant = "robust" /\ navs[n].doc # NoDoc) => navs[n].status = "ok"

\* What finalizing a navigation does to the page
Finalized == {"history", "scroll", "active", "anim"}

\* C12: a loadPage that left through a failure exit has assigned the
\* requested URL to window.location.href and has not pushed a history entry,
\* reset the scroll position, updated the active link or started the
\* entrance animation; and no loadPage gets past a failure (no document, an
\* asset replacement that threw, no live mount point) without leaving.
C12_FailureExitsDoNotFinalize ==
    \A n \in 1..Len(navs) :
        variant = "robust" =>
            /\ navs[n].pc = "hard" =>
                  /\ navs[n].reason \in {"badurl", "nofetch", "assets", "nomain"}
                  /\ navs[n].target = IF navs[n].reason = "badurl" THEN navs[n].href
                                                                   ELSE Href(Url(n))
                  /\ navs[n].touched \cap Finalized = {}
            /\ navs[n].pc \in {"preload", "frame", "done", "aborted"} =>
                  /\ navs[n].doc # NoDoc
                  /\ ~replacePageAssets(navs[n].doc).threw
            /\ navs[n].pc \in {"frame", "done", "aborted"} => liveMain # "none"

C12_Witness ==
    /\ variant = "robust"
    /\ \E n \in 1..Len(navs) : navs[n].pc = "hard" /\ navs[n].reason = "assets"
    /\ \E n \in 1..Len(navs) : navs[n].pc = "hard" /\ navs[n].reason = "nomain"
    /\ pushCount = 0

\* C13: when a navigation completes, every <script> of the fragment it
\* selected is in the mount point and has been executed.
C13_FragmentScriptsRun ==
    [][\A n \in 1..Len(navs) :
          (variant = "robust" /\ Completes(n)) =>
              /\ mount'.scripts = Body(navs[n].doc.b).scripts
              /\ mount'.run = mount'.scripts]_vars

\* The page-scoped styles among a list of page assets
Styles(assets) == SelectSeq(assets, LAMBDA a : a.tag \in {"style", "link"})

\* C14: in every state the head carries the complete page-scoped styles of
\* the page as served or of a document a navigation fetched: the old styles
\* are never gone while the new ones are not all attached.
C14_NoStyleGap ==
    variant = "robust" =>
        Styles(headAssets) \in
            {Styles(InitialAssets(l)) : l \in InitLocs}
            \cup {Styles(PageAssets(navs[n].doc)) :
                     n \in {m \in 1..Len(navs) : navs[m].doc # NoDoc}}

\* C15: while a candidate fetch of a navigation is in flight the mount point
\* is hidden.
C15_HiddenDuringFetch ==
    \A n \in 1..Len(navs) :
        (variant = "robust" /\ navs[n].pc = "fetch") => ~visible

\* C16: the mount point's content is replaced only while it is hidden, and
\* it is revealed only by the step that completes a navigation, after that
\* navigation's content swap and history update.
C16_RevealAfterSwap ==
    [][variant = "robust" =>
          /\ mount' # mount => ~visible
          /\ (~visible /\ visible') =>
                \E n \in 1..Len(navs) :
                    /\ Completes(n)
                    /\ mount' = Content(navs[n].doc, findReplacementFragment(navs[n].doc))
                    /\ navs[n].push => pushCount' = pushCount + 1]_vars

-----------------------------------------------------------------------------
(* Properties of the earlier variants (checked under SpecVariants) *)

\* C17: first variant: while the fetch of some navigate call is pending
\* (lock applied, swap not yet done) the document root does not carry the
\* class "ready", also when navigations overlap.
C17_LockedWhilePending ==
    variant = "first" =>
        ((\E n \in 1..Len(navs) : navs[n].pc = "fetch1") => "ready" \notin rootClass)

\* C18: "stable" variant: no step of a navigateTo call made by the popstate
\* listener pushes a history entry.
C18_PopstateNeverPushesStable ==
    [][\A n \in 1..Len(navs) :
          (variant = "stable" /\ ~navs[n].push /\ Steps(n)) =>
              /\ pushCount' = pushCount
              /\ hist' = hist]_vars

\* C19: "stable" variant: a navigateTo whose fetch rejected, that found no
\* live main#app or whose document has neither fragment has assigned the
\* requested URL to window.location, and has neither swapped the page assets
\* nor touched the mount point.
C19_StableFallsBack ==
    \A n \in 1..Len(navs) :
        (variant = "stable" /\ navs[n].reason \in {"nofetch", "nomain", "nofrag"}) =>
            /\ navs[n].pc = "hard"
            /\ navs[n].target = navs[n].reqs[1]
            /\ navs[n].touched \cap {"assets", "mount"} = {}

\* C20: click listener of part_000: when the response arrives and the
\* fetched document or the live page has no <main>, the listener assigns the
\* requested URL to window.location.href and neither pushes a history entry
\* nor changes the active link.
C20_StructuralFailureRecovers ==
    [][\A n \in 1..Len(navs) :
          (/\ variant = "handler"
           /\ navs[n].pc = "fetchH" /\ navs'[n].pc = "unlockH"
           /\ navs'[n].doc # NoDoc
           /\ (Body(navs'[n].doc.b).main = "none" \/ liveMain = "none")) =>
              /\ navs'[n].target = navs[n].reqs[1]
              /\ hist' = hist
              /\ pushCount' = pushCount
              /\ active' = active]_vars

-----------------------------------------------------------------------------
(* Candidates, fragment, history and title of the robust variant *)

NoDuplicates(q) == \A j, k \in 1..Len(q) : j < k => q[j] # q[k]

\* C21: for every request href buildVariants returns a non-empty list without
\* duplicates that starts with the requested URL and goes on with its
\* trailing-slash counterpart and then its directory-index form, each
\* duplicate dropped.
C21_CandidateSet ==
    call.f = "buildVariants" =>
        /\ call.out # <<>>
        /\ NoDuplicates(call.out)
        /\ call.out[1] = call.arg
        /\ Dedup([k \in 1..Len(call.out) |-> HostPath(call.out[k])])
             = C4_Expected(ParseURL(call.arg))

\* C22: the requests of a navigation are the candidates in list order, each
\* at most once, and end with the candidate that yielded the document.
C22_OneRequestPerCandidate ==
    \A n \in 1..Len(navs) :
        variant = "robust" =>
            LET variants == buildVariants(Href(Url(n)))
                reqs == navs[n].reqs
            IN  /\ Len(reqs) <= Len(variants)
                /\ reqs = SubSeq(variants, 1, Len(reqs))
                /\ NoDuplicates(reqs)
                /\ navs[n].pc = "fetch" => Len(reqs) = navs[n].i
                /\ navs[n].doc # NoDoc => navs[n].doc.u = Last(reqs)

C22_Witness ==
    \E n \in 1..Len(navs) :
        /\ variant = "robust" /\ navs[n].pc = "done"
        /\ Len(navs[n].reqs) = 3
        /\ navs[n].doc.u = navs[n].reqs[3]

\* C23: a completed navigation has put the non-empty .page-enter of its
\* document into the mount point, else the document's main element; a
\* navigation whose document has neither leaves by the hard fallback and
\* swaps nothing in.
C23_FragmentSelection ==
    [][\A n \in 1..Len(navs) :
          variant = "robust" =>
              /\ Completes(n) =>
                    mount'.frag = IF Body(navs[n].doc.b).pe = "full" THEN "pe" ELSE "main"
              /\ (/\ Steps(n) /\ navs'[n].doc # NoDoc
                  /\ Body(navs'[n].doc.b).pe = "none"
                  /\ Body(navs'[n].doc.b).main = "none") =>
                    /\ navs'[n].pc = "hard"
                    /\ mount' = mount]_vars

\* C24: the history entry a completed click navigation pushes is that of the
\* candidate URL whose response became the document.
C24_HistoryFromMatchedCandidate ==
    [][\A n \in 1..Len(navs) :
          (variant = "robust" /\ Completes(n) /\ navs[n].push) =>
              hist'.entries[hist'.idx] = LocOf(ParseURL(navs[n].doc.u))]_vars

\* C25: the step that completes a loadPage with pushState = true replaces the
\* mount point content and pushes one history entry, that of the requested
\* URL's path and query; and the number of entries pushed is the number of
\* completed click navigations.
C25_PushExactlyOnce ==
    [][variant = "robust" =>
          /\ \A n \in 1..Len(navs) :
                (Completes(n) /\ navs[n].push) =>
                    /\ pushCount' = pushCount + 1
                    /\ hist'.idx = hist.idx + 1
                    /\ Len(hist'.entries) = hist'.idx
                    /\ hist'.entries[hist'.idx] =
                         [pathname |-> Url(n).pathname, search |-> Url(n).search]
                    /\ mount' = Content(navs[n].doc, findReplacementFragment(navs[n].doc))
          /\ pushCount' = Cardinality({n \in 1..Len(navs') :
                                          navs'[n].push /\ navs'[n].pc = "done"})]_vars

C25_Witness ==
    /\ variant = "robust"
    /\ pushCount = 2
    /\ Len(hist.entries) = 3
    /\ \A n \in 1..Len(navs) : navs[n].push /\ navs[n].pc = "done"
    /\ loc.search = <<Query>>

\* C26: the step that completes a navigation sets the live title to the
\* title of the fetched document when it has one, and leaves it otherwise.
C26_TitleApplied ==
    [][\A n \in 1..Len(navs) :
          (variant = "robust" /\ Completes(n)) =>
              title' = IF Body(navs[n].doc.b).title = "some"
                         THEN <<"title", navs[n].doc.b, navs[n].doc.u>>
                         ELSE title]_vars

C26_Witness ==
    \E n, m \in 1..Len(navs) :
        /\ variant = "robust" /\ ev.kind = "task"
        /\ navs[n].pc = "done" /\ Body(navs[n].doc.b).title = "some"
        /\ navs[m].pc = "done" /\ Body(navs[m].doc.b).title = "none"
        /\ title = <<"title", navs[n].doc.b, navs[n].doc.u>>
        /\ mount.b = navs[m].doc.b

\* C27: the document a navigation fetched is as the parser made it: no node
\* of it was moved into the live page or changed in place.
C27_FetchedDocumentIntact ==
    \A n \in 1..Len(navs) :
        (variant = "robust" /\ navs[n].doc # NoDoc) =>
            navs[n].doc = parseHtml(navs[n].doc.u, navs[n].doc.b)

C27_Witness ==
    \E n \in 1..Len(navs) :
        /\ variant = "robust" /\ navs[n].pc = "done"
        /\ {"assets", "mount"} \subseteq navs[n].touched
        /\ mount.b = navs[n].doc.b
        /\ Body(navs[n].doc.b).scripts > 0

\* C28: every URL requested for a navigation started by a click is of the
\* page's own origin.
C28_RequestsSameOrigin ==
    \A n \in 1..Len(navs) :
        (variant = "robust" /\ navs[n].push) =>
            \A k \in 1..Len(navs[n].reqs) : ParseURL(navs[n].reqs[k]).host = Origin

-----------------------------------------------------------------------------
(* Properties of the helper functions (checked under SpecFunctions) *)

C29_Normalized(p, out) ==
    /\ out = <<Slash>> \/ ~EndsWithSlash(out)
    /\ normalizePath(out) = out

\* C29, as stated: for every path p, normalizePath(p) is "/" or does not end
\* in "/", and normalizePath is idempotent.
C29_AsStated ==
    call.f = "normalizePath" => C29_Normalized(call.arg, call.out)

\* C29, amended: the same for every path p that does not end in two slashes;
\* and a path and the same path with one slash appended have the same
\* normalized path.
C29_NormalizePathSingleSlash ==
    (/\ call.f = "normalizePath"
     /\ ~(Len(call.arg) > 1 /\ EndsWithSlash(call.arg) /\ EndsWithSlash(Front(call.arg)))) =>
        /\ C29_Normalized(call.arg, call.out)
        /\ ~EndsWithSlash(call.arg) => normalizePath(call.arg \o <<Slash>>) = call.out

C29_Witness ==
    /\ call.f = "normalizePath"
    /\ call.arg = <<Slash, "a", Slash>>
    /\ call.out = <<Slash, "a">>

\* C30: updateActiveNav marks the root link exactly when the current path is
\* "/", and any other link exactly when its href and the current path are
\* equal up to a trailing slash or the current path lies under the href
\* followed by "/".
C30_ActiveIffSubPath ==
    call.f = "updateActiveNav" =>
        \A i \in 1..Len(BookNavLinks) :
            call.out[i] <=>
                IF BookNavLinks[i] = <<Slash>>
                  THEN call.arg = <<Slash>>
                  ELSE \/ stripSlash(BookNavLinks[i]) = stripSlash(call.arg)
                       \/ startsWith(call.arg, stripSlash(BookNavLinks[i]) \o <<Slash>>)

-----------------------------------------------------------------------------
(* Overlapping navigations, robust variant *)

\* No loadPage is between two of its awaits, and every one started has
\* completed successfully
QuiescentAfterSuccess ==
    /\ variant = "robust"
    /\ Len(navs) > 0
    /\ \A n \in 1..Len(navs) : navs[n].pc = "done"

\* C31: in every quiescent state reached after successful navigations the
\* page assets attached to the head and the content of the mount point come
\* from one and the same fetched document.
C31_AssetsAndContentAgree ==
    QuiescentAfterSuccess =>
        \E n \in 1..Len(navs) :
            /\ headAssets = PageAssets(navs[n].doc)
            /\ mount = Content(navs[n].doc, findReplacementFragment(navs[n].doc))

\* Three navigations of the robust variant on a page with a mount point,
\* against a server that serves every page: enough for a history traversal
\* (which needs an entry pushed by a completed navigation) to overlap with
\* another navigation.
InitOverlap == Init /\ variant = "robust" /\ liveMain = "app"

OverlapResponses == {r \in Responses : r.kind = "res" /\ r.ok /\ r.body = "full"}

NextOverlap ==
    \/ \E c \in LoadClicks : Click(c, MaxOverlapNavs)
    \/ \E k \in 1..MaxOverlapNavs : Popstate(k, MaxOverlapNavs)
    \/ \E n \in 1..MaxOverlapNavs : \E r \in OverlapResponses : FetchSettle(n, r)
    \/ \E n \in 1..MaxOverlapNavs : ImagesSettle(n)
    \/ \E n \in 1..MaxOverlapNavs : Frame(n)

SpecOverlap == InitOverlap /\ [][NextOverlap]_vars

\* C32: in every quiescent state reached after successful navigations the
\* current history entry's path and query are those of the navigation whose
\* content is in the mount point, and the active links are the links of
\* that navigation's path.
C32_HistoryMatchesPage ==
    QuiescentAfterSuccess =>
        \E n \in 1..Len(navs) :
            /\ mount = Content(navs[n].doc, findReplacementFragment(navs[n].doc))
            /\ LocPathSearch = PathSearch(Url(n))
            /\ ActiveLinks(active) = MatchingLinks(Url(n).pathname)

-----------------------------------------------------------------------------
(* Termination of loadPage *)

\* Every fetch, every image preload and every animation frame a loadPage
\* waits for eventually settles: the continuation after each await is
\* eventually run.
Settling ==
    \A n \in 1..MaxClickNavs :
        /\ WF_vars(\E r \in ClickResponses : FetchSettle(n, r))
        /\ WF_vars(ImagesSettle(n))
        /\ WF_vars(Frame(n))
        /\ WF_vars(\E r \in ClickResponses : FetchSettle3(n, r))

\* The click listeners and the navigations they start, with settling awaits
SpecLive == Init /\ [][NextClicks]_vars /\ Settling

\* loadPage invocation n has been started / has ended with the new content
\* shown or with a hard browser navigation
Started(n) == variant = "robust" /\ n <= Len(navs)
Ended(n) == n <= Len(navs) /\ navs[n].pc \in {"done", "hard"}

\* C33: every navigation started by loadPage eventually ends with a hard
\* browser navigation or by completing, and the step that completes it
\* leaves the mount point visible and showing the new content.
C33_EveryNavigationEnds ==
    /\ \A n \in 1..MaxClickNavs : Started(n) ~> Ended(n)
    /\ [][\A n \in 1..Len(navs) :
            (variant = "robust" /\ Completes(n)) =>
                /\ visible'
                /\ mount' = Content(navs[n].doc, findReplacementFragment(navs[n].doc))]_vars

-----------------------------------------------------------------------------
(* Query strings of the candidates (checked under SpecFunctions) *)

\* C34: every candidate buildVariants returns for a request that carries a
\* query string carries that same query string.
C34_CandidatesKeepQuery ==
    (call.f = "buildVariants" /\ ParseURL(call.arg).search # <<>>) =>
        \A i \in 1..Len(call.out) :
            ParseURL(call.out[i]).search = ParseURL(call.arg).search

-----------------------------------------------------------------------------
(* Fade variant: src/unnamed/part_001.  Pages of the main header load       *)
(* without a fade; every other page ("article") is faded out before the     *)
(* fetch and revealed by a timer after the swap.                            *)

\* Bound: navigate invocations per page lifetime
MaxFadeNavs == 2

\* The main header paths, with and without trailing slash
MAIN_PAGES ==
    {<<Slash>>, <<Slash, "index.html">>, <<Slash, "a">>, <<Slash, "a", Slash>>}

\* url.split("?")[0].split("#")[0]
splitPath(url) == IF url # <<>> /\ Last(url) = Query THEN Front(url) ELSE url

\* MAIN_PAGES.some(p => path === p || path === p.replace(/\/$/, ""))
isMainPage(url) ==
    \E p \in MAIN_PAGES : splitPath(url) = p \/ splitPath(url) = stripSlash(p)

\* The page as served: the script ends with opacity = "1"
InitFade ==
    /\ variant = "fade"
    /\ loc \in InitLocs
    /\ hist = [entries |-> <<loc>>, idx |-> 1]
    /\ pushCount = 0
    /\ liveMain \in {"app", "none"}
    /\ mount = InitialMount(loc)
    /\ visible = TRUE
    /\ title = InitialTitle
    /\ headAssets = InitialAssets(loc)
    /\ active = setActiveNav(loc.pathname)
    /\ rootClass = {}
    /\ opacity = 1
    /\ navs = <<>>
    /\ call = NoCall
    /\ ev = NoEvent("load")
    /\ InitComponent

\* The clicks of the fade variant: a main page, articles, an absolute URL,
\* an anchor without href
FadeClicks ==
    {PlainClick(h) : h \in {<<>>, <<Slash>>, <<Slash, "b">>, <<Slash, "b", Query>>,
                            <<Scheme, "other", Slash, "a">>}}

\* navigate(url, push) up to its first await: the 150 ms timer for an
\* article (pc "fade"), the fetch for a main page (pc "fetchF")
fadeStart(url, push, l) ==
    IF isMainPage(url)
      THEN [NewNav(url, push) EXCEPT !.pc = "fetchF", !.reqs = <<LinkHref(url, l)>>]
      ELSE [NewNav(url, push) EXCEPT !.pc = "fade"]

\* document.documentElement.style.opacity after the first lines of navigate
fadeOut(url, o) == IF isMainPage(url) THEN o ELSE 0

ClickF(c) ==
    /\ variant = "fade"
    /\ spaClick(c) => Len(navs) < MaxFadeNavs
    /\ ev' = [kind |-> "click", c |-> c, prevented |-> spaClick(c), n0 |-> Len(navs)]
    /\ IF spaClick(c)
         THEN /\ opacity' = fadeOut(c.href, opacity)
              /\ navs' = Append(navs, fadeStart(c.href, TRUE, loc))
         ELSE UNCHANGED <<opacity, navs>>
    /\ UNCHANGED <<variant, pokedex, call, rootClass, loc, hist, pushCount, liveMain, mount,
                   visible, title, headAssets, active>>

\* navigate(location.pathname, false)
PopstateF(k) ==
    /\ variant = "fade"
    /\ Len(navs) < MaxFadeNavs
    /\ k \in 1..Len(hist.entries)
    /\ k # hist.idx
    /\ hist' = [hist EXCEPT !.idx = k]
    /\ loc' = hist.entries[k]
    /\ ev' = NoEvent("popstate")
    /\ opacity' = fadeOut(loc'.pathname, opacity)
    /\ navs' = Append(navs, fadeStart(loc'.pathname, FALSE, loc'))
    /\ UNCHANGED <<variant, pokedex, call, rootClass, pushCount, liveMain, mount, visible, title,
                   headAssets, active>>

\* The 150 ms timer of an article navigation: fetch(url)
FadeTimer(n) ==
    /\ variant = "fade"
    /\ n \in 1..Len(navs)
    /\ navs[n].pc = "fade"
    /\ navs' = [navs EXCEPT ![n].pc = "fetchF",
                            ![n].reqs = <<LinkHref(navs[n].href, loc)>>]
    /\ ev' = NoEvent("task")
    /\ UNCHANGED <<variant, pokedex, call, rootClass, opacity, loc, hist, pushCount, liveMain,
                   mount, visible, title, headAssets, active>>

\* The style[data-page-style] elements of the fetched document, cloned
swapStyles(doc) == SelectSeq(PageAssets(doc), LAMBDA a : a.tag = "style")

\* newMain after replaceWith and the re-creation of its scripts, which the
\* script engine then executes
RerunScripts(doc) == [MainElement(doc) EXCEPT !.run = Body(doc.b).scripts]

\* The response arrives: swap of the styles and of <main>, scripts re-run,
\* active link, history; an article sets the 50 ms reveal timer.
FetchSettleF(n, r) ==
    LET nav == navs[n]
        url == nav.href
        newMain == Body(r.body).main
        noMain == newMain = "none" \/ liveMain = "none"
        parsed == r.kind = "res"
        swaps == parsed /\ ~noMain
        doc == IF swaps THEN moveNode(parseHtml(nav.reqs[1], r.body), "main")
                        ELSE parseHtml(nav.reqs[1], r.body)
        throws == nav.push /\ ~pushAllowedAt(url, loc)
        pushes == swaps /\ nav.push /\ ~throws
        head1 == IF parsed THEN swapStyles(doc) ELSE headAssets
        hist1 == IF pushes THEN pushStateAt(hist, url, loc) ELSE hist
        active1 == IF swaps THEN toggleActive(url) ELSE active
        t == Diff("assets", headAssets, head1)
               \cup (IF swaps
                       THEN {"swap", "scroll"} \cup Diff("mount", mount, RerunScripts(doc))
                              \cup Diff("active", active, active1)
                              \cup Diff("history", hist, hist1)
                       ELSE {})
    IN  /\ variant = "fade"
        /\ n \in 1..Len(navs)
        /\ nav.pc = "fetchF"
        /\ headAssets' = head1
        /\ mount' = IF swaps THEN RerunScripts(doc) ELSE mount
        /\ liveMain' = IF swaps THEN newMain ELSE liveMain
        /\ active' = active1
        /\ hist' = hist1
        /\ loc' = hist1.entries[hist1.idx]
        /\ pushCount' = IF pushes THEN pushCount + 1 ELSE pushCount
        /\ navs' = [navs EXCEPT ![n] =
              IF ~parsed THEN Hard(nav, LinkHref(url, loc), "threw")
              ELSE IF noMain THEN Hard([nav EXCEPT !.doc = doc, !.status = StatusOf(r),
                                                   !.touched = t],
                                       LinkHref(url, loc), "nomain")
              ELSE IF throws THEN Hard([nav EXCEPT !.doc = doc, !.status = StatusOf(r),
                                                   !.touched = t],
                                       LinkHref(url, loc), "threw")
              ELSE [nav EXCEPT !.doc = doc, !.status = StatusOf(r), !.touched = t,
                               !.pc = IF isMainPage(url) THEN "done" ELSE "reveal"]]
        /\ ev' = NoEvent("task")
        /\ UNCHANGED <<variant, pokedex, call, rootClass, opacity, visible, title>>

\* The 50 ms timer set after the swap of an article
RevealTimer(n) ==
    /\ variant = "fade"
    /\ n \in 1..Len(navs)
    /\ navs[n].pc = "reveal"
    /\ opacity' = 1
    /\ navs' = [navs EXCEPT ![n].pc = "done"]
    /\ ev' = NoEvent("task")
    /\ UNCHANGED <<variant, pokedex, call, rootClass, loc, hist, pushCount, liveMain, mount,
                   visible, title, headAssets, active>>

NextFade ==
    \/ \E c \in FadeClicks : ClickF(c)
    \/ \E k \in 1..MaxFadeNavs : PopstateF(k)
    \/ \E n \in 1..MaxFadeNavs : FadeTimer(n)
    \/ \E n \in 1..MaxFadeNavs : \E r \in Responses : FetchSettleF(n, r)
    \/ \E n \in 1..MaxFadeNavs : RevealTimer(n)

SpecFade == InitFade /\ [][NextFade]_vars

\* navigate invocation n is for an article / replaces <main> in this step
Article(n) == ~isMainPage(navs[n].href)
SwapsNow(n) == "swap" \notin navs[n].touched /\ "swap" \in navs'[n].touched

\* C35: an article navigation replaces the main content only while the
\* document's opacity is 0, and the opacity goes back to 1 only when every
\* article navigation that has faded the page out has made its swap (or
\* left for a hard navigation).
C35_SwapWhileFadedOut ==
    [][variant = "fade" =>
          /\ \A n \in 1..Len(navs) : (Article(n) /\ SwapsNow(n)) => opacity = 0
          /\ (opacity = 0 /\ opacity' = 1) =>
                \A n \in 1..Len(navs) :
                    Article(n) => navs[n].pc \notin {"fade", "fetchF"}]_vars

-----------------------------------------------------------------------------
(* Pokedex component: getPokemonJson, fetchEvolutionData, fetchPokemon,      *)
(* fetchRegionPage and the event handlers.  A promise that is already        *)
(* resolved (a cache hit) lets its await go on in a microtask, before any    *)
(* other event: such continuations are part of the step that reached them.   *)

\* Bound: fetchPokemon / fetchRegionPage invocations per component lifetime
MaxDexJobs == 2
\* Bound: the national dex numbers the API knows (REGIONS.all.range is
\* [1, 1010]); the region list is 1..MaxDexId
MaxDexId == 3
\* pageSize = 30, scaled to the region list
pageSize == 2

DexIds == 1..MaxDexId
Name(i) == Text(<<"name", i>>, FALSE, FALSE)
\* The JSON of /pokemon/{key}: id, name (lower case in the API's data)
Json(i) == [id |-> i, name |-> Name(i)]
\* The pokemon the API serves under a key (0: none, the API answers 404)
Resolve(key) ==
    IF ~key.up /\ ~key.pad /\ Len(key.s) = 2 /\ key.s[2] \in DexIds THEN key.s[2] ELSE 0

\* d.species.url is the species of the pokemon itself; two consecutive
\* pokemon (1-2, 3-4, ...) share an evolution chain, named by its first member
Chain(i) == IF i % 2 = 0 THEN i - 1 ELSE i
\* traverse(evoJson.chain): the species of the chain
Members(c) == {c, c + 1} \cap DexIds

\* What a fetch settles with: a response with an ok status, a response with
\* another status, a rejection (network error)
FetchResults == {"ok", "notok", "throw"}
ResultsFor(key) == IF Resolve(key) = 0 THEN {"notok", "throw"} ELSE FetchResults

storeJsonIdOnly(cache, json) == (String(json.id) :> json) @@ cache

\* pokemonCache.set(String(json.id), json); pokemonCache.set(json.name.toLowerCase(), json)
storeJson(cache, json) ==
    (toLowerCase(json.name) :> json) @@ (String(json.id) :> json) @@ cache

\* One element of a slice (or the one pokemon of fetchPokemon) on its way
\* through getPokemonJson, fetchEvolutionData and the getPokemonJson calls
\* for the evolutions.  pc: "pokemon", "species", "chain" (awaiting that
\* request), "evos" (awaiting the requests for the evolutions in waiting),
\* "ready" (the async callback returned), "rejected" (getPokemonJson threw).
\* evo: "none" (fetchEvolutionData not returned), "null" (it returned null
\* or no evolutions), "list".
NewItem(key) == [key |-> key, pc |-> "pokemon", id |-> 0, evo |-> "none", waiting |-> {}]

\* Promise.all(evolutions.map(e => getPokemonJson(e.name))): a request for
\* every evolution whose name is not in the cache
evosStage(item, pC) ==
    LET w == {i \in Members(Chain(item.id)) : toLowerCase(Name(i)) \notin DOMAIN pC}
    IN  [item EXCEPT !.evo = "list", !.waiting = w,
                     !.pc = IF w = {} THEN "ready" ELSE "evos"]

\* fetchEvolutionData from evoChainCache.get on
chainStage(item, eC, pC) ==
    IF Chain(item.id) \in eC THEN evosStage(item, pC) ELSE [item EXCEPT !.pc = "chain"]

\* fetchEvolutionData(d.species.url) from speciesCache.get on
speciesStage(item, sC, eC, pC) ==
    IF item.id \in sC THEN chainStage(item, eC, pC) ELSE [item EXCEPT !.pc = "species"]

\* getPokemonJson(idOrName) and what follows it without a request
startItem(idOrName, pC, sC, eC) ==
    LET key == toLowerCase(idOrName)
    IN  IF key \in DOMAIN pC
          THEN speciesStage([NewItem(key) EXCEPT !.id = pC[key].id], sC, eC, pC)
          ELSE NewItem(key)

\* The getPokemonJson calls made while an item went from old to new, with
\* the cache pC they saw: whether the key was in the cache, whether a
\* request was issued, and the value returned at once (id 0: none)
NoJson == [id |-> 0, name |-> Text(<<>>, FALSE, FALSE)]
CallOf(key, pC, request) ==
    [op |-> "call", key |-> key, cached |-> key \in DOMAIN pC, request |-> request,
     value |-> IF key \in DOMAIN pC THEN pC[key] ELSE NoJson, r |-> "none"]
firstCall(new, pC) ==
    {CallOf(new.key, pC, new.pc = "pokemon")}
evoCalls(old, new, pC) ==
    IF old.evo # "list" /\ new.evo = "list"
      THEN {CallOf(toLowerCase(Name(i)), pC, i \in new.waiting) : i \in Members(Chain(new.id))}
      ELSE {}
\* A request of getPokemonJson settled with r
SettleOf(key, r) ==
    [op |-> "settle", key |-> key, cached |-> FALSE, request |-> TRUE,
     value |-> IF r = "ok" THEN Json(Resolve(key)) ELSE NoJson, r |-> r]

\* An invocation of fetchPokemon (kind "pokemon") or fetchRegionPage (kind
\* "region"): pc "run", "done" (the try block completed), "failed" (catch)
NewJob(kind, page, items) == [kind |-> kind, page |-> page, pc |-> "run", items |-> items]

Range(q) == {q[k] : k \in 1..Len(q)}

\* The end of fetchPokemon / fetchRegionPage, once its awaits allow it
Finish(job, d) ==
    LET pcs == {job.items[k].pc : k \in 1..Len(job.items)}
        ids == [k \in 1..Len(job.items) |-> job.items[k].id]
    IN  IF job.pc # "run" THEN [job |-> job, dex |-> d]
        ELSE IF "rejected" \in pcs
          THEN [job |-> [job EXCEPT !.pc = "failed"],
                dex |-> IF job.kind = "pokemon"
                          THEN [d EXCEPT !.error = "fetch", !.loading = FALSE]
                          ELSE [d EXCEPT !.error = "region", !.loadingRegion = FALSE]]
        ELSE IF pcs \subseteq {"ready"}
          THEN [job |-> [job EXCEPT !.pc = "done"],
                dex |-> IF job.kind = "pokemon"
                          THEN [d EXCEPT !.pokemon = Json(ids[1]), !.query = Name(ids[1]),
                                         !.showAll = FALSE, !.loading = FALSE]
                          ELSE [d EXCEPT !.regionDetails = @ \o ids, !.regionPage = job.page,
                                         !.loadingRegion = FALSE]]
        ELSE [job |-> job, dex |-> d]

\* fetchPokemon(q) called with the component state d
fetchPokemon(q, d) ==
    LET trimmed == toLowerCase(trim(q))
        item == startItem(trimmed, pokemonCache, speciesCache, evoChainCache)
        fin == Finish(NewJob("pokemon", 0, <<item>>),
                      [d EXCEPT !.loading = TRUE, !.error = "none", !.pokemon = NullPokemon])
    IN  IF trimmed.s = <<>>
          THEN /\ dex' = d
               /\ UNCHANGED jobs
               /\ lookups' = {}
          ELSE /\ Len(jobs) < MaxDexJobs
               /\ dex' = fin.dex
               /\ jobs' = Append(jobs, fin.job)
               /\ lookups' = firstCall(item, pokemonCache)
                               \cup evoCalls(NewItem(item.key), item, pokemonCache)

\* fetchRegionPage(page) of a render whose regionList is list, called with
\* the component state d
fetchRegionPage(page, list, d) ==
    LET start == page * pageSize
        end == IF start + pageSize < Len(list) THEN start + pageSize ELSE Len(list)
        slice == SubSeq(list, start + 1, end)
        items == [k \in 1..Len(slice) |->
                     startItem(slice[k], pokemonCache, speciesCache, evoChainCache)]
        fin == Finish(NewJob("region", page, items),
                      [d EXCEPT !.loadingRegion = TRUE, !.error = "none"])
    IN  IF list = <<>>
          THEN /\ dex' = d
               /\ UNCHANGED jobs
               /\ lookups' = {}
          ELSE /\ Len(jobs) < MaxDexJobs
               /\ dex' = fin.dex
               /\ jobs' = Append(jobs, fin.job)
               /\ lookups' = UNION {firstCall(items[k], pokemonCache)
                                      \cup evoCalls(NewItem(items[k].key), items[k], pokemonCache) :
                                    k \in 1..Len(items)}

\* The rest of the page
page == <<loc, hist, pushCount, liveMain, mount, visible, title, headAssets, active,
          rootClass, opacity, navs, call, ev>>

InitPokedex ==
    /\ variant = "pokedex"
    /\ loc \in InitLocs
    /\ hist = [entries |-> <<loc>>, idx |-> 1]
    /\ pushCount = 0
    /\ liveMain = "app"
    /\ mount = InitialMount(loc)
    /\ visible = TRUE
    /\ title = InitialTitle
    /\ headAssets = InitialAssets(loc)
    /\ active = setActiveNav(loc.pathname)
    /\ rootClass = {}
    /\ opacity = 1
    /\ navs = <<>>
    /\ call = NoCall
    /\ ev = NoEvent("load")
    /\ InitComponent

\* What the user types into the search box
DexQueries ==
    {Text(<<>>, FALSE, TRUE), Text(<<"name", 1>>, TRUE, TRUE), String(2),
     Text(<<"junk">>, FALSE, FALSE)}

\* onChange of the search box
Type(q) ==
    /\ dex' = [dex EXCEPT !.query = q]
    /\ lookups' = {}
    /\ UNCHANGED <<variant, page, pokemonCache, speciesCache, evoChainCache, jobs>>

\* onSubmit: the submit button is disabled while loading
Submit ==
    /\ ~dex.loading
    /\ fetchPokemon(dex.query, dex)
    /\ UNCHANGED <<variant, page, pokemonCache, speciesCache, evoChainCache>>

\* a non-empty string is truthy
Truthy(t) == t.s # <<>> \/ t.pad

\* The "Scan" button: fetchPokemon(query || (pokemon?.id ?? '1'))
Scan ==
    /\ fetchPokemon(IF Truthy(dex.query) THEN dex.query
                    ELSE IF dex.pokemon # NullPokemon THEN String(dex.pokemon.id)
                    ELSE String(1), dex)
    /\ UNCHANGED <<variant, page, pokemonCache, speciesCache, evoChainCache>>

\* browseById(increment)
browseById(increment) ==
    /\ dex.pokemon # NullPokemon
    /\ fetchPokemon(String(IF dex.pokemon.id + increment < 1
                             THEN 1 ELSE dex.pokemon.id + increment), dex)
    /\ UNCHANGED <<variant, page, pokemonCache, speciesCache, evoChainCache>>

\* Click on the tile of pokemon i in the region grid: fetchPokemon(p.name)
PickTile(i) ==
    /\ dex.showAll
    /\ i \in Range(dex.regionDetails)
    /\ fetchPokemon(Name(i), dex)
    /\ UNCHANGED <<variant, page, pokemonCache, speciesCache, evoChainCache>>

\* prepareRegionList(region): the ids of the region, as strings
prepareRegionList == [i \in 1..MaxDexId |-> String(i)]

\* onShowAll: its fetchRegionPage is the one of the render the click
\* happened in, whose regionList is the list before setRegionList
onShowAll ==
    /\ fetchRegionPage(0, dex.regionList,
                       [dex EXCEPT !.showAll = TRUE, !.pokemon = NullPokemon,
                                   !.regionDetails = <<>>,
                                   !.regionList = prepareRegionList])
    /\ UNCHANGED <<variant, page, pokemonCache, speciesCache, evoChainCache>>

\* The "Load more cards" button, rendered while showAll and
\* regionDetails.length < regionList.length
LoadMore ==
    /\ dex.showAll
    /\ Len(dex.regionDetails) < Len(dex.regionList)
    /\ fetchRegionPage(dex.regionPage + 1, dex.regionList, dex)
    /\ UNCHANGED <<variant, page, pokemonCache, speciesCache, evoChainCache>>

clearAll ==
    /\ dex' = [dex EXCEPT !.query = Text(<<>>, FALSE, FALSE), !.pokemon = NullPokemon,
                          !.error = "none", !.showAll = FALSE, !.regionDetails = <<>>]
    /\ lookups' = {}
    /\ UNCHANGED <<variant, page, pokemonCache, speciesCache, evoChainCache, jobs>>

\* jobs and dex after item k of job j became item
Settled(j, k, item) ==
    LET fin == Finish([jobs[j] EXCEPT !.items[k] = item], dex)
    IN  /\ jobs' = [jobs EXCEPT ![j] = fin.job]
        /\ dex' = fin.dex

\* The /pokemon request of getPokemonJson settles
PokemonSettle(j, k, r) ==
    LET item == jobs[j].items[k]
        json == Json(Resolve(item.key))
        pC == IF r = "ok" THEN storeJson(pokemonCache, json) ELSE pokemonCache
        new == IF r = "ok"
                 THEN speciesStage([item EXCEPT !.id = json.id], speciesCache,
                                   evoChainCache, pC)
                 ELSE [item EXCEPT !.pc = "rejected"]
    IN  /\ j \in 1..Len(jobs)
        /\ k \in 1..Len(jobs[j].items)
        /\ item.pc = "pokemon"
        /\ r \in ResultsFor(item.key)
        /\ pokemonCache' = pC
        /\ Settled(j, k, new)
        /\ lookups' = {SettleOf(item.key, r)} \cup evoCalls(item, new, pC)
        /\ UNCHANGED <<variant, page, speciesCache, evoChainCache>>

\* The species request of fetchEvolutionData settles
SpeciesSettle(j, k, r) ==
    LET item == jobs[j].items[k]
        sC == IF r = "ok" THEN speciesCache \cup {item.id} ELSE speciesCache
        new == IF r = "ok" THEN chainStage(item, evoChainCache, pokemonCache)
                           ELSE [item EXCEPT !.evo = "null", !.pc = "ready"]
    IN  /\ j \in 1..Len(jobs)
        /\ k \in 1..Len(jobs[j].items)
        /\ item.pc = "species"
        /\ r \in FetchResults
        /\ speciesCache' = sC
        /\ Settled(j, k, new)
        /\ lookups' = evoCalls(item, new, pokemonCache)
        /\ UNCHANGED <<variant, page, pokemonCache, evoChainCache>>

\* The evolution chain request of fetchEvolutionData settles
ChainSettle(j, k, r) ==
    LET item == jobs[j].items[k]
        eC == IF r = "ok" THEN evoChainCache \cup {Chain(item.id)} ELSE evoChainCache
        new == IF r = "ok" THEN evosStage(item, pokemonCache)
                           ELSE [item EXCEPT !.evo = "null", !.pc = "ready"]
    IN  /\ j \in 1..Len(jobs)
        /\ k \in 1..Len(jobs[j].items)
        /\ item.pc = "chain"
        /\ r \in FetchResults
        /\ evoChainCache' = eC
        /\ Settled(j, k, new)
        /\ lookups' = evoCalls(item, new, pokemonCache)
        /\ UNCHANGED <<variant, page, pokemonCache, speciesCache>>

\* The /pokemon request for evolution i settles; a failure is caught (the
\* evolution gets no sprite)
SpriteSettle(j, k, i, r) ==
    LET item == jobs[j].items[k]
        w == item.waiting \ {i}
        new == [item EXCEPT !.waiting = w, !.pc = IF w = {} THEN "ready" ELSE "evos"]
    IN  /\ j \in 1..Len(jobs)
        /\ k \in 1..Len(jobs[j].items)
        /\ item.pc = "evos"
        /\ i \in item.waiting
        /\ r \in FetchResults
        /\ pokemonCache' = IF r = "ok" THEN storeJson(pokemonCache, Json(i)) ELSE pokemonCache
        /\ Settled(j, k, new)
        /\ lookups' = {SettleOf(toLowerCase(Name(i)), r)}
        /\ UNCHANGED <<variant, page, speciesCache, evoChainCache>>

NextPokedex ==
    \/ \E q \in DexQueries : Type(q)
    \/ Submit
    \/ Scan
    \/ \E increment \in {-1, 1} : browseById(increment)
    \/ \E i \in DexIds : PickTile(i)
    \/ onShowAll
    \/ LoadMore
    \/ clearAll
    \/ \E j \in 1..MaxDexJobs : \E k \in 1..pageSize : \E r \in FetchResults :
          PokemonSettle(j, k, r)
    \/ \E j \in 1..MaxDexJobs : \E k \in 1..pageSize : \E r \in FetchResults :
          SpeciesSettle(j, k, r)
    \/ \E j \in 1..MaxDexJobs : \E k \in 1..pageSize : \E r \in FetchResults :
          ChainSettle(j, k, r)
    \/ \E j \in 1..MaxDexJobs : \E k \in 1..pageSize : \E i \in DexIds :
          \E r \in FetchResults : SpriteSettle(j, k, i, r)

SpecPokedex == InitPokedex /\ [][NextPokedex]_vars

-----------------------------------------------------------------------------
(* Properties of the Pokedex component (checked under SpecPokedex) *)

\* The keys of the cache, and the keys a pokemon JSON is stored under
CacheKeys == DOMAIN pokemonCache
KeysOf(json) == {String(json.id), toLowerCase(json.name)}

\* C36: a getPokemonJson call whose lower-cased key is in pokemonCache
\* returns the cached value and issues no request, and a call whose key is
\* not in the cache issues one; a request that settles with an ok response
\* stores the JSON under its id and under its lower-cased name, and nothing
\* is ever removed, so a later call with either key issues no request; a
\* request that fails throws and leaves the cache unchanged.
C36_CacheHitsIssueNoRequest ==
    [][variant = "pokedex" =>
          /\ \A c \in lookups' :
                /\ (c.op = "call" /\ c.key \in DOMAIN pokemonCache') =>
                      /\ c.cached /\ ~c.request
                      /\ c.value = pokemonCache'[c.key]
                /\ (c.op = "call" /\ c.key \notin DOMAIN pokemonCache') => c.request
                /\ (c.op = "settle" /\ c.r = "ok") =>
                      \A key \in KeysOf(c.value) :
                          key \in DOMAIN pokemonCache' /\ pokemonCache'[key] = c.value
                /\ (c.op = "settle" /\ c.r # "ok") => pokemonCache' = pokemonCache
          /\ \A key \in DOMAIN pokemonCache :
                key \in DOMAIN pokemonCache' /\ pokemonCache'[key] = pokemonCache[key]
          /\ \A j \in 1..Len(jobs) : \A k \in 1..Len(jobs[j].items) :
                /\ jobs'[j].items[k].pc = "rejected" =>
                      \/ jobs[j].items[k].pc = "rejected"
                      \/ \E c \in lookups' : /\ c.op = "settle" /\ c.r # "ok"
                                              /\ c.key = jobs[j].items[k].key
                /\ jobs'[j].items[k].id # 0 =>
                      /\ KeysOf(Json(jobs'[j].items[k].id)) \subseteq DOMAIN pokemonCache'
                      /\ Resolve(jobs[j].items[k].key) = jobs'[j].items[k].id
          /\ \A c \in lookups' :
                (c.op = "settle" /\ c.r # "ok") =>
                    \E j \in 1..Len(jobs) : \E k \in 1..Len(jobs[j].items) :
                        \/ /\ jobs[j].items[k].key = c.key
                           /\ jobs[j].items[k].pc = "pokemon"
                           /\ jobs'[j].items[k].pc = "rejected"
                        \/ /\ jobs[j].items[k].pc = "evos"
                           /\ jobs'[j].items[k].waiting # jobs[j].items[k].waiting]_vars

\* A pokemon fetched by its id is found by its name without a request
C36_Witness ==
    /\ variant = "pokedex"
    /\ \E c \in lookups :
          /\ c.op = "call" /\ c.cached /\ ~c.request
          /\ c.key = toLowerCase(Name(2))
          /\ c.value = Json(2)
    /\ \E j \in 1..Len(jobs) : jobs[j].kind = "pokemon" /\ jobs[j].items[1].key = String(2)
    /\ \A j \in 1..Len(jobs) : \A k \in 1..Len(jobs[j].items) :
          jobs[j].items[k].key # toLowerCase(Name(2))
    /\ dex.pokemon = Json(2)

\* The last fetchPokemon invocation started
LastFetchPokemon ==
    CHOOSE j \in 1..Len(jobs) :
        /\ jobs[j].kind = "pokemon"
        /\ \A m \in (j + 1)..Len(jobs) : jobs[m].kind # "pokemon"

\* fetchPokemon invocation j reaches the end of its try block in this step
Shows(j) == jobs[j].kind = "pokemon" /\ jobs[j].pc = "run" /\ jobs'[j].pc = "done"

\* C37: once every started request has settled, a displayed pokemon is the
\* result of the most recently started fetchPokemon call; the call started
\* last sets the displayed pokemon and the query text to its result, and a
\* call that ends after a call started later has shown its result changes
\* neither.
C37_LatestFetchWins ==
    /\ []((/\ variant = "pokedex"
           /\ \E j \in 1..Len(jobs) : jobs[j].kind = "pokemon"
           /\ \A j \in 1..Len(jobs) : jobs[j].pc # "run"
           /\ jobs[LastFetchPokemon].pc = "done"
           /\ dex.pokemon # NullPokemon) =>
              dex.pokemon = Json(jobs[LastFetchPokemon].items[1].id))
    /\ [][\A j \in 1..Len(jobs) :
            (variant = "pokedex" /\ Shows(j)) =>
                /\ j = LastFetchPokemon =>
                      /\ dex'.pokemon = Json(jobs'[j].items[1].id)
                      /\ dex'.query = Name(jobs'[j].items[1].id)
                /\ (\E m \in (j + 1)..Len(jobs) :
                        jobs[m].kind = "pokemon" /\ jobs[m].pc = "done") =>
                      /\ dex'.pokemon = dex.pokemon
                      /\ dex'.query = dex.query]_vars

\* C38: regionDetails never contains the same pokemon id twice.
C38_NoDuplicateCards ==
    variant = "pokedex" => NoDuplicates(dex.regionDetails)

====
